---------------------------- MODULE Spec2Model ----------------------------
(***************************************************************************)
(* A model of the keplerian-elements crate: the Newton-Raphson root solver *)
(* (math.rs), the anomaly solvers and the forward conversion from orbital  *)
(* elements to state vectors (elements.rs), the inverse conversion and the *)
(* universal-variable propagator (state_vectors.rs).                       *)
(*                                                                         *)
(* Numbers.  The crate computes in Num = f32.  The model keeps the shape   *)
(* of a floating-point format but not its width: a finite Num is an        *)
(* integer n standing for the real n / SCALE, of magnitude at most MAXF;   *)
(* a result beyond MAXF overflows to +-INF, an undefined result is NAN,    *)
(* and every operation rounds to the nearest representable value.  NAN     *)
(* compares false with everything, as in IEEE 754.  There is one zero.     *)
(***************************************************************************)
EXTENDS Integers, Sequences, FiniteSets, TLC

\* ------------------------------------------------------------------------
\* The number format
\* ------------------------------------------------------------------------

\* 1.0; the resolution of a Num is 1/SCALE.
SCALE == 1000
\* The largest finite magnitude (f32::MAX).
MAXF == 200000000
\* The working scale of the elementary functions: they are evaluated with
\* three more decimal digits and rounded once, like a libm routine.
HI == 1000000

ONE == SCALE
INF == MAXF + 1
NAN == MAXF + 2

is_nan(a) == a = NAN
is_finite(a) == -MAXF <= a /\ a <= MAXF

\* Overflow of an exact integer result to an infinity.
Round(v) == IF v > MAXF THEN INF ELSE IF v < -MAXF THEN -INF ELSE v

Sign(a) == IF a < 0 THEN -1 ELSE 1
Mag(a) == IF a < 0 THEN -a ELSE a

\* <<q, r>> with q = floor(a * 10^k / b) and r = (a * 10^k) mod b, by long
\* division, one decimal digit a step; 0 <= a, 0 < b <= MAXF.
RECURSIVE DivDigits(_, _, _, _)
DivDigits(q, r, b, k) ==
    IF k = 0 THEN <<q, r>>
    ELSE DivDigits(q * 10 + (r * 10) \div b, (r * 10) % b, b, k - 1)

\* round(a * 10^k / b) for 0 <= a, 0 < b <= MAXF, or MAXF + 1 on overflow.
QuoRound(a, b, k, lim) ==
    IF a \div b > lim THEN MAXF + 1
    ELSE LET qr == DivDigits(a \div b, a % b, b, k)
         IN  IF 2 * qr[2] >= b THEN qr[1] + 1 ELSE qr[1]

\* a + b
add(a, b) ==
    IF a = NAN \/ b = NAN THEN NAN
    ELSE IF a = INF THEN (IF b = -INF THEN NAN ELSE INF)
    ELSE IF a = -INF THEN (IF b = INF THEN NAN ELSE -INF)
    ELSE IF b = INF \/ b = -INF THEN b
    ELSE Round(a + b)

\* -a
neg(a) == IF a = NAN THEN NAN ELSE -a

\* a - b
sub(a, b) == add(a, neg(b))

\* a.abs()
abs(a) == IF a = NAN THEN NAN ELSE Mag(a)

\* The magnitude of a product of finite magnitudes: a * b / SCALE, exactly
\* rounded, MAXF + 1 on overflow.  a = a1 * SCALE + a0, b likewise.
MulMag(a, b) ==
    LET a1 == a \div SCALE
        a0 == a % SCALE
        b1 == b \div SCALE
        b0 == b % SCALE
    IN  IF a1 # 0 /\ b1 > (MAXF \div SCALE) \div a1 THEN MAXF + 1
        ELSE a1 * b1 * SCALE + a1 * b0 + a0 * b1
             + (a0 * b0 + SCALE \div 2) \div SCALE

\* a * b
mul(a, b) ==
    IF a = NAN \/ b = NAN THEN NAN
    ELSE IF ~is_finite(a) \/ ~is_finite(b)
         THEN (IF a = 0 \/ b = 0 THEN NAN ELSE Sign(a) * Sign(b) * INF)
    ELSE Round(Sign(a) * Sign(b) * MulMag(Mag(a), Mag(b)))

\* a / b
div(a, b) ==
    IF a = NAN \/ b = NAN THEN NAN
    ELSE IF ~is_finite(a)
         THEN (IF ~is_finite(b) THEN NAN ELSE Sign(a) * Sign(b) * INF)
    ELSE IF ~is_finite(b) THEN 0
    ELSE IF b = 0 THEN (IF a = 0 THEN NAN ELSE Sign(a) * INF)
    ELSE Round(Sign(a) * Sign(b) * QuoRound(Mag(a), Mag(b), 3, MAXF \div SCALE))

\* Comparisons: false as soon as an operand is NaN.
lt(a, b) == a # NAN /\ b # NAN /\ a < b
gt(a, b) == lt(b, a)
ge(a, b) == a # NAN /\ b # NAN /\ a >= b
le(a, b) == ge(b, a)
feq(a, b) == a # NAN /\ b # NAN /\ a = b


\* ------------------------------------------------------------------------
\* Elementary functions (f32::sqrt, sin, cos, tan, atan, acos, ...)
\* ------------------------------------------------------------------------

PI_HI == 3141593
HALF_PI_HI == 1570796
TWO_PI_HI == 6283185
LN2_HI == 693147

\* A working-scale value rounded to a Num.
FromHi(v) == Sign(v) * ((Mag(v) + 500) \div 1000)

\* a * b / HI for working-scale magnitudes (a = a1 * 1000 + a0, b likewise).
MulHi(a, b) ==
    LET a1 == a \div 1000
        a0 == a % 1000
        b1 == b \div 1000
        b0 == b % 1000
    IN  a1 * b1 + (a1 * b0 + a0 * b1 + (a0 * b0) \div 1000 + 500) \div 1000

\* floor(sqrt(a * 10^k)) for a >= 0, by Newton's iteration from above.
RECURSIVE SqrtIter(_, _, _)
SqrtIter(a, k, y) ==
    LET q == DivDigits(a \div y, a % y, y, k)[1]
        y1 == (y + q) \div 2
    IN  IF y1 >= y THEN y ELSE SqrtIter(a, k, y1)

RECURSIVE SqrtSeed(_, _)
SqrtSeed(a, y) == IF y * y >= a \/ y >= 32768 THEN y ELSE SqrtSeed(a, 2 * y)

\* sqrt of a finite Num a >= 0, rounded to nearest: y = floor(sqrt(a * SCALE))
\* is raised by one when a * SCALE > y^2 + y.
SqrtMag(a) ==
    IF a = 0 THEN 0
    ELSE LET y == SqrtIter(a, 3, 32 * SqrtSeed(a, 1))
             qr == DivDigits(a \div y, a % y, y, 3)
         IN  IF qr[1] - y >= 2 \/ (qr[1] - y = 1 /\ qr[2] > 0) THEN y + 1 ELSE y

\* a.sqrt()
sqrt(a) ==
    IF a = NAN \/ a < 0 THEN NAN
    ELSE IF a = INF THEN INF
    ELSE SqrtMag(a)

\* sin on [0, pi/2] at the working scale: x (1 - x^2/(2*3) (1 - x^2/(4*5) (...))).
RECURSIVE SinSeries(_, _)
SinSeries(x2, k) ==
    IF k > 7 THEN HI
    ELSE HI - MulHi(x2, SinSeries(x2, k + 1)) \div (2 * k * (2 * k + 1))

\* The series' last digit may carry past 1.0; a sine does not.
AtMostOne(s) == IF s > HI THEN HI ELSE s

SinQuadrant(x) == AtMostOne(MulHi(x, SinSeries(MulHi(x, x), 1)))

\* sin of a working-scale angle in [0, 2 pi).
SinHi(r) ==
    IF r <= HALF_PI_HI THEN SinQuadrant(r)
    ELSE IF r <= PI_HI THEN SinQuadrant(PI_HI - r)
    ELSE IF r <= PI_HI + HALF_PI_HI THEN -SinQuadrant(r - PI_HI)
    ELSE -SinQuadrant(TWO_PI_HI - r)

CosHi(r) == SinHi((r + HALF_PI_HI) % TWO_PI_HI)

\* A finite Num angle reduced to [0, 2 pi) at the working scale.
Reduce(a) ==
    IF Mag(a) <= 2000000 THEN (a * 1000) % TWO_PI_HI
    ELSE ((a % 6283) * 1000) % TWO_PI_HI

\* a.sin()
sin(a) == IF ~is_finite(a) THEN NAN ELSE FromHi(SinHi(Reduce(a)))

\* a.cos()
cos(a) == IF ~is_finite(a) THEN NAN ELSE FromHi(CosHi(Reduce(a)))

\* a.tan(): finite for every finite a, however close to a pole.
tan(a) ==
    IF ~is_finite(a) THEN NAN
    ELSE LET s == SinHi(Reduce(a))
             c == CosHi(Reduce(a))
             m == IF c = 0 THEN MAXF
                  ELSE QuoRound(Mag(s), Mag(c), 3, MAXF \div SCALE)
         IN  Sign(s) * Sign(c) * (IF m > MAXF THEN MAXF ELSE m)

\* atan on [0, tan(pi/8)] at the working scale:
\* t (1 - t^2 (1/3 - t^2 (1/5 - ...))).
RECURSIVE AtanSeries(_, _)
AtanSeries(t2, k) ==
    IF k > 9 THEN 0
    ELSE HI \div (2 * k + 1) - MulHi(t2, AtanSeries(t2, k + 1))

AtanSmall(t) == MulHi(t, AtanSeries(MulHi(t, t), 0))

\* atan on [0, 1]: atan(t) = pi/4 - atan((1 - t) / (1 + t)) above tan(pi/8).
AtanUnit(t) ==
    IF t <= 414214 THEN AtanSmall(t)
    ELSE HALF_PI_HI \div 2
         - AtanSmall(DivDigits((HI - t) \div (HI + t), (HI - t) % (HI + t),
                               HI + t, 6)[1])

\* atan of a magnitude (a Num, or INF), at the working scale.
AtanHi(m) ==
    IF m = INF THEN HALF_PI_HI
    ELSE IF m <= SCALE THEN AtanUnit(m * 1000)
    ELSE HALF_PI_HI - AtanUnit(1000000000 \div m)

\* a.atan()
atan(a) == IF a = NAN THEN NAN ELSE Sign(a) * FromHi(AtanHi(Mag(a)))

\* acos of a magnitude m in [0, 1]: 2 atan(sqrt((1 - m) / (1 + m))).
AcosHi(m) ==
    LET ratio == DivDigits((SCALE - m) \div (SCALE + m),
                           (SCALE - m) % (SCALE + m), SCALE + m, 6)[1]
        root == IF ratio = 0 THEN 0 ELSE SqrtIter(ratio, 6, HI)
    IN  2 * AtanUnit(root)

\* a.acos(): NaN outside [-1, 1].
acos(a) ==
    IF a = NAN \/ a > ONE \/ a < -ONE THEN NAN
    ELSE IF a >= 0 THEN FromHi(AcosHi(a))
    ELSE FromHi(PI_HI - AcosHi(-a))

\* num / (SCALE * p) = m * 2^k with num / (SCALE * p) in [1/sqrt 2, sqrt 2]:
\* <<num, SCALE * p, k>>.
RECURSIVE LnNorm(_, _, _)
LnNorm(num, p, k) ==
    IF num > 1414 * p THEN LnNorm(num, 2 * p, k + 1)
    ELSE IF num < SCALE /\ num * 1414 < 1000 * SCALE THEN LnNorm(2 * num, p, k - 1)
    ELSE <<num, SCALE * p, k>>

\* 2 atanh(z) = 2 z (1 + z^2 (1/3 + z^2 (1/5 + ...))) for |z| <= 0.172.
RECURSIVE AtanhSeries(_, _)
AtanhSeries(z2, k) ==
    IF k > 5 THEN 0
    ELSE HI \div (2 * k + 1) + MulHi(z2, AtanhSeries(z2, k + 1))

\* ln of a finite Num m > 0 at the working scale: k ln 2 + ln(num / den),
\* ln(num / den) = 2 atanh((num - den) / (num + den)).
LnHi(m) ==
    LET n == LnNorm(m, 1, 0)
        big == n[1] + n[2] > MAXF
        num == IF big THEN n[1] \div 4 ELSE n[1]
        den == IF big THEN n[2] \div 4 ELSE n[2]
        d == Mag(num - den)
        z == DivDigits(d \div (num + den), d % (num + den), num + den, 6)[1]
    IN  n[3] * LN2_HI
        + Sign(num - den) * 2 * MulHi(z, AtanhSeries(MulHi(z, z), 0))

\* a.ln()
ln(a) ==
    IF a = NAN \/ a < 0 THEN NAN
    ELSE IF a = 0 THEN -INF
    ELSE IF a = INF THEN INF
    ELSE FromHi(LnHi(a))

\* e^r at the working scale for |r| <= (ln 2) / 2:
\* 1 + r (1 + r/2 (1 + r/3 (...))).
RECURSIVE ExpSeries(_, _)
ExpSeries(r, k) ==
    IF k > 9 THEN HI
    ELSE HI + Sign(r) * (MulHi(Mag(r), ExpSeries(r, k + 1)) \div k)

RECURSIVE Pow2(_)
Pow2(k) == IF k = 0 THEN 1 ELSE 2 * Pow2(k - 1)

\* e^x at the working scale for a working-scale |x| <= 7: 2^k e^r.
ExpHi(x) ==
    LET k == (x + LN2_HI \div 2) \div LN2_HI
        e == ExpSeries(x - k * LN2_HI, 1)
    IN  IF k >= 0 THEN e * Pow2(k) ELSE (e + Pow2(-k) \div 2) \div Pow2(-k)

\* e^m as a Num magnitude for a Num 7 < m <= 12.3.
ExpBig(m) ==
    LET x == m * 1000
        k == (x + LN2_HI \div 2) \div LN2_HI
    IN  ((ExpSeries(x - k * LN2_HI, 1) + 500) \div 1000) * Pow2(k)

\* a.sinh()
sinh(a) ==
    IF a = NAN THEN NAN
    ELSE IF Mag(a) > 12300 THEN Sign(a) * INF
    ELSE IF Mag(a) > 7000 THEN Round(Sign(a) * (ExpBig(Mag(a)) \div 2))
    ELSE FromHi((ExpHi(a * 1000) - ExpHi(-a * 1000)) \div 2)

\* a.cosh()
cosh(a) ==
    IF a = NAN THEN NAN
    ELSE IF Mag(a) > 12300 THEN INF
    ELSE IF Mag(a) > 7000 THEN Round(ExpBig(Mag(a)) \div 2)
    ELSE FromHi((ExpHi(a * 1000) + ExpHi(-a * 1000)) \div 2)

\* a.tanh()
tanh(a) ==
    IF a = NAN THEN NAN
    ELSE IF Mag(a) > 5000 THEN Sign(a) * ONE
    ELSE LET p == ExpHi(Mag(a) * 1000)
             q == ExpHi(-Mag(a) * 1000)
         IN  Sign(a) * QuoRound(p - q, p + q, 3, MAXF \div SCALE)

\* a.powf(1.0 / 3.0): NaN for a negative base.
powf_third(a) ==
    IF a = NAN \/ a < 0 THEN NAN
    ELSE IF a = 0 \/ a = INF THEN a
    ELSE FromHi(ExpHi(LnHi(a) \div 3))

\* a.powf(2.0 / 5.0): NaN for a negative base.
powf_two_fifths(a) ==
    IF a = NAN \/ a < 0 THEN NAN
    ELSE IF a = 0 \/ a = INF THEN a
    ELSE FromHi(ExpHi((LnHi(a) * 2) \div 5))

\* a.powi(2), a.powi(3)
powi2(a) == mul(a, a)
powi3(a) == mul(mul(a, a), a)

\* a.signum(): 1.0 for +0.0 and above, -1.0 below, NaN for NaN.
signum(a) == IF a = NAN THEN NAN ELSE IF a >= 0 THEN ONE ELSE -ONE

\* ------------------------------------------------------------------------
\* glam::Vec3 and glam::Mat3, as the crate uses them
\* ------------------------------------------------------------------------

vec3(x, y, z) == [x |-> x, y |-> y, z |-> z]

Vec3_X == vec3(ONE, 0, 0)
Vec3_Z == vec3(0, 0, ONE)

\* a.dot(b) = a.x * b.x + a.y * b.y + a.z * b.z
dot(a, b) == add(add(mul(a.x, b.x), mul(a.y, b.y)), mul(a.z, b.z))

\* a.cross(b)
cross(a, b) ==
    vec3(sub(mul(a.y, b.z), mul(b.y, a.z)),
         sub(mul(a.z, b.x), mul(b.z, a.x)),
         sub(mul(a.x, b.y), mul(b.x, a.y)))

\* a.length()
length(a) == sqrt(dot(a, a))

\* a * k and k * a
vscale(a, k) == vec3(mul(a.x, k), mul(a.y, k), mul(a.z, k))

\* a / k
vdiv(a, k) == vec3(div(a.x, k), div(a.y, k), div(a.z, k))

\* a + b, a - b
vadd(a, b) == vec3(add(a.x, b.x), add(a.y, b.y), add(a.z, b.z))
vsub(a, b) == vec3(sub(a.x, b.x), sub(a.y, b.y), sub(a.z, b.z))

\* a.normalize() = a * (1.0 / a.length())
normalize(a) == vscale(a, div(ONE, length(a)))

\* a.is_nan(): some component is NaN (an infinite component is not).
vec_is_nan(a) == is_nan(a.x) \/ is_nan(a.y) \/ is_nan(a.z)

\* A Mat3 is its three columns.
Mat3_IDENTITY == <<vec3(ONE, 0, 0), vec3(0, ONE, 0), vec3(0, 0, ONE)>>

Mat3_from_rotation_x(angle) ==
    <<vec3(ONE, 0, 0),
      vec3(0, cos(angle), sin(angle)),
      vec3(0, neg(sin(angle)), cos(angle))>>

Mat3_from_rotation_z(angle) ==
    <<vec3(cos(angle), sin(angle), 0),
      vec3(neg(sin(angle)), cos(angle), 0),
      vec3(0, 0, ONE)>>

\* m.mul_vec3(v) = m.x_axis * v.x + m.y_axis * v.y + m.z_axis * v.z
mul_vec3(m, v) ==
    vadd(vadd(vscale(m[1], v.x), vscale(m[2], v.y)), vscale(m[3], v.z))

\* m * n
mul_mat3(m, n) == <<mul_vec3(m, n[1]), mul_vec3(m, n[2]), mul_vec3(m, n[3])>>

\* ------------------------------------------------------------------------
\* constants.rs
\* ------------------------------------------------------------------------

\* The gravitational constant.  Masses are counted in the unit in which it
\* is 1.0, so that mu = G * mass is representable.
G == ONE

\* std::f32::consts::PI, to the nearest Num.
PI == 3142

TWO_PI == mul(2 * ONE, PI)

\* Num::EPSILON: the distance from 1.0 to the next Num.
EPSILON == 1

\* ------------------------------------------------------------------------
\* math.rs, astro.rs: the solver and the scalar formulas
\* ------------------------------------------------------------------------

MAX_STEPS == 100000

standard_gravitational_parameter(mass) == mul(G, mass)

\* astro.rs: the radius of the sphere of influence.
soi(r, m1, m2) == mul(r, powf_two_fifths(div(m1, m2)))

\* The residual the anomaly solvers hand to newton_approx: for the
\* eccentric anomaly f(E) = E - e sin E - M, for the hyperbolic anomaly
\* f(F) = e sinh F - F - M.
residual(kind, e, M, x) ==
    IF kind = "hyperbolic" THEN sub(sub(mul(e, sinh(x)), x), M)
    ELSE sub(sub(x, mul(e, sin(x))), M)

\* Its derivative: f'(E) = 1 - e cos E, f'(F) = e cosh F - 1.
residual_prime(kind, e, x) ==
    IF kind = "hyperbolic" THEN sub(mul(e, cosh(x)), ONE)
    ELSE sub(ONE, mul(e, cos(x)))

\* One pass of newton_approx's loop body: x_next = x - f(x) / f_prime(x).
newton_next(kind, e, M, x) ==
    sub(x, div(residual(kind, e, M, x), residual_prime(kind, e, x)))

\* The loop's exit test: (x_next - x).abs() < epsilon.
newton_converged(x_next, x, epsilon) == lt(abs(sub(x_next, x)), epsilon)

\* ------------------------------------------------------------------------
\* elements.rs: KeplerianElements
\* ------------------------------------------------------------------------

KeplerianElements(e, a, i, raan, argp, M0, t0) ==
    [eccentricity |-> e, semi_major_axis |-> a, inclination |-> i,
     right_ascension_of_the_ascending_node |-> raan,
     argument_of_periapsis |-> argp, mean_anomaly_at_epoch |-> M0,
     epoch |-> t0]

StateVectors(position, velocity) ==
    [position |-> position, velocity |-> velocity]

is_elliptical(self) == lt(self.eccentricity, ONE)

\* A dispatch that leaves the parabolic boundary to neither class.
is_hyperbolic_strict(self) == gt(self.eccentricity, ONE)

is_hyperbolic(self) == ge(self.eccentricity, ONE)

specific_angular_momentum(self, mass) ==
    LET mu == standard_gravitational_parameter(mass)
        a == self.semi_major_axis
        e == self.eccentricity
    IN  IF is_hyperbolic(self)
        THEN sqrt(mul(mul(mu, a), sub(powi2(e), ONE)))
        ELSE sqrt(mul(mul(mu, a), sub(ONE, powi2(e))))

mean_motion(h, e, mass) ==
    LET mu == standard_gravitational_parameter(mass)
    IN  mul(div(powi2(mu), powi3(h)), sqrt(powi3(sub(ONE, powi2(e)))))

hyperbolic_mean_motion(h, e, mass) ==
    LET mu == standard_gravitational_parameter(mass)
    IN  mul(div(powi2(mu), powi3(h)), sqrt(powi3(sub(powi2(e), ONE))))

mean_anomaly(self, mass, epoch) ==
    LET h == specific_angular_momentum(self, mass)
        e == self.eccentricity
        epoch_diff == sub(epoch, self.epoch)
    IN  add(self.mean_anomaly_at_epoch, mul(mean_motion(h, e, mass), epoch_diff))

hyperbolic_mean_anomaly(self, mass, epoch) ==
    LET h == specific_angular_momentum(self, mass)
        e == self.eccentricity
        epoch_diff == sub(epoch, self.epoch)
    IN  add(self.mean_anomaly_at_epoch,
            mul(hyperbolic_mean_motion(h, e, mass), epoch_diff))

\* The branch true_anomaly_at_epoch takes, and with it the solver it calls.
anomaly_kind(self) == IF is_hyperbolic(self) THEN "hyperbolic" ELSE "elliptic"

\* The M both estimate_eccentric_anomaly and estimate_hyperbolic_anomaly
\* compute first, and pass to newton_approx as M and as x0.
solver_mean_anomaly(self, mass, epoch) ==
    IF is_hyperbolic(self) THEN hyperbolic_mean_anomaly(self, mass, epoch)
    ELSE mean_anomaly(self, mass, epoch)

\* astro::elliptic::true_anomaly: the true anomaly from the eccentric one.
elliptic_true_anomaly(E, e) ==
    mul(2 * ONE, atan(div(tan(div(E, 2 * ONE)),
                          sqrt(div(sub(ONE, e), add(ONE, e))))))

\* A true_anomaly_at_epoch whose elliptic branch multiplies by the root
\* where the code divides by it.
true_anomaly_of_product(self, E) ==
    LET e == self.eccentricity
    IN  IF is_hyperbolic(self)
        THEN mul(2 * ONE, atan(div(tanh(div(E, 2 * ONE)),
                                   sqrt(div(sub(e, ONE), add(e, ONE))))))
        ELSE mul(2 * ONE, atan(mul(tan(div(E, 2 * ONE)),
                                   sqrt(div(sub(ONE, e), add(ONE, e))))))

\* true_anomaly_at_epoch once its solver has returned the anomaly E (or F).
true_anomaly_of(self, E) ==
    LET e == self.eccentricity
    IN  IF is_hyperbolic(self)
        THEN mul(2 * ONE, atan(div(tanh(div(E, 2 * ONE)),
                                   sqrt(div(sub(e, ONE), add(e, ONE))))))
        ELSE mul(2 * ONE, atan(div(tan(div(E, 2 * ONE)),
                                   sqrt(div(sub(ONE, e), add(ONE, e))))))

perifocal_to_equatorial(self, perifocal) ==
    LET m1 == mul_mat3(Mat3_IDENTITY,
                       Mat3_from_rotation_z(self.right_ascension_of_the_ascending_node))
        m2 == mul_mat3(m1, Mat3_from_rotation_x(self.inclination))
        m3 == mul_mat3(m2, Mat3_from_rotation_z(self.argument_of_periapsis))
    IN  mul_vec3(m3, perifocal)

\* A position whose perifocal coordinates are exchanged: q along the first
\* axis, p along the second.
position_at_true_anomaly_exchanged(self, mass, v) ==
    LET e == self.eccentricity
        h == specific_angular_momentum(self, mass)
        mu == standard_gravitational_parameter(mass)
        r == div(div(powi2(h), mu), add(ONE, mul(e, cos(v))))
        p == mul(r, cos(v))
        q == mul(r, sin(v))
    IN  perifocal_to_equatorial(self, vec3(q, p, 0))

position_at_true_anomaly(self, mass, v) ==
    LET e == self.eccentricity
        h == specific_angular_momentum(self, mass)
        mu == standard_gravitational_parameter(mass)
        r == div(div(powi2(h), mu), add(ONE, mul(e, cos(v))))
        p == mul(r, cos(v))
        q == mul(r, sin(v))
    IN  perifocal_to_equatorial(self, vec3(p, q, 0))

velocity_at_true_anomaly(self, mass, v) ==
    LET e == self.eccentricity
        h == specific_angular_momentum(self, mass)
        mu == standard_gravitational_parameter(mass)
        vp == mul(neg(div(mu, h)), sin(v))
        vq == mul(div(mu, h), add(e, cos(v)))
    IN  perifocal_to_equatorial(self, vec3(vp, vq, 0))

\* state_vectors_at_epoch once true_anomaly_at_epoch has returned v.
state_vectors_of(self, mass, v) ==
    StateVectors(position_at_true_anomaly(self, mass, v),
                 velocity_at_true_anomaly(self, mass, v))

ascending_node(self, mass) ==
    position_at_true_anomaly(self, mass, neg(self.argument_of_periapsis))

\* A descending node taken half a turn from the periapsis, not from the
\* ascending node.
descending_node_from_periapsis(self, mass) ==
    position_at_true_anomaly(self, mass, PI)

descending_node(self, mass) ==
    position_at_true_anomaly(self, mass, sub(PI, self.argument_of_periapsis))

periapsis(self, mass) == position_at_true_anomaly(self, mass, 0)

apoapsis(self, mass) == position_at_true_anomaly(self, mass, PI)

normal(self) == perifocal_to_equatorial(self, Vec3_Z)

\* The wrapper of that name, called on self.
wrapper(name, self, mass) ==
    CASE name = "ascending_node" -> ascending_node(self, mass)
      [] name = "descending_node" -> descending_node(self, mass)
      [] name = "periapsis" -> periapsis(self, mass)
      [] name = "apoapsis" -> apoapsis(self, mass)
      [] name = "normal" -> normal(self)

\* ------------------------------------------------------------------------
\* state_vectors.rs: StateVectors
\* ------------------------------------------------------------------------

calculate_hyperbolic_mean_anomaly(e, v) ==
    LET term1 == div(mul(mul(e, sqrt(sub(powi2(e), ONE))), sin(v)),
                     add(ONE, mul(e, cos(v))))
        half == tan(div(v, 2 * ONE))
        term2_numerator == add(sqrt(add(e, ONE)), mul(sqrt(sub(e, ONE)), half))
        term2_denominator == sub(sqrt(add(e, ONE)), mul(sqrt(sub(e, ONE)), half))
    IN  sub(term1, ln(div(term2_numerator, term2_denominator)))

calculate_elliptical_mean_anomaly(e, v) ==
    LET term1 == mul(2 * ONE,
                     atan(mul(sqrt(div(sub(ONE, e), add(ONE, e))),
                              tan(div(v, 2 * ONE)))))
        term2 == mul(e, div(mul(sqrt(sub(ONE, powi2(e))), sin(v)),
                            add(ONE, mul(e, cos(v)))))
    IN  sub(term1, term2)

\* A node vector that is normalized without the substitution of the X axis.
node_vector_unguarded(hv) == normalize(cross(Vec3_Z, hv))

\* to_elements, lines 33-43: the node vector Z x h, replaced by the X axis
\* when it is shorter than EPSILON, then normalized.
node_vector(hv) ==
    LET nv == cross(Vec3_Z, hv)
    IN  normalize(IF lt(length(nv), EPSILON) THEN Vec3_X ELSE nv)

\* to_elements, line 48: the eccentricity vector.
eccentricity_vector(self, mu) ==
    LET rv == self.position
        r == length(rv)
        vv == self.velocity
        v_mag == length(vv)
    IN  vscale(vsub(vscale(rv, sub(powi2(v_mag), div(mu, r))),
                    vscale(vv, dot(rv, vv))),
               div(ONE, mu))

\* to_elements, lines 60-68: the right ascension of the ascending node from
\* the node vector and the inclination.
ascending_node_angle(nv, i) ==
    LET raan == acos(nv.x)
        wrapped == IF lt(nv.y, 0) THEN sub(TWO_PI, raan) ELSE raan
    IN  IF lt(abs(i), EPSILON) THEN 0 ELSE wrapped

\* to_elements, lines 71-92: the argument of periapsis.
periapsis_angle(ev, e, nv, i) ==
    LET argp == acos(dot(vdiv(ev, e), nv))
        wrapped == IF lt(abs(i), EPSILON)
                   THEN (IF lt(ev.y, 0) THEN sub(TWO_PI, argp) ELSE argp)
                   ELSE (IF lt(ev.z, 0) THEN sub(TWO_PI, argp) ELSE argp)
    IN  IF feq(e, 0) THEN 0 ELSE wrapped

\* to_elements, lines 95-99: the semi-major axis.
axis_of(h, mu, e) ==
    IF ge(e, ONE)
    THEN div(div(powi2(h), mu), sub(powi2(e), ONE))
    ELSE div(div(powi2(h), mu), sub(ONE, powi2(e)))

\* to_elements, lines 102-106: the true anomaly.
true_anomaly_angle(self, ev, e) ==
    LET rv == self.position
        r == length(rv)
        vv == self.velocity
        v_mag == length(vv)
        v == acos(dot(vdiv(rv, r), vdiv(ev, e)))
    IN  IF lt(dot(vdiv(rv, r), vdiv(vv, v_mag)), 0) THEN sub(TWO_PI, v) ELSE v

\* to_elements, lines 109-113: the mean anomaly, by orbit class.
mean_anomaly_of(e, v) ==
    IF ge(e, ONE) THEN calculate_hyperbolic_mean_anomaly(e, v)
    ELSE calculate_elliptical_mean_anomaly(e, v)

\* The arguments to_elements hands to acos, in the order of the calls: for
\* the inclination, the node, the periapsis and the true anomaly.
acos_arguments(self, mass) ==
    LET hv == cross(self.position, self.velocity)
        nv == node_vector(hv)
        ev == eccentricity_vector(self, standard_gravitational_parameter(mass))
        e == length(ev)
    IN  <<div(hv.z, length(hv)),
          nv.x,
          dot(vdiv(ev, e), nv),
          dot(vdiv(self.position, length(self.position)), vdiv(ev, e))>>

to_elements(self, mass, time) ==
    LET hv == cross(self.position, self.velocity)
        h == length(hv)
        nv == node_vector(hv)
        mu == standard_gravitational_parameter(mass)
        ev == eccentricity_vector(self, mu)
        e == length(ev)
        i == acos(div(hv.z, h))
        v == true_anomaly_angle(self, ev, e)
    IN  KeplerianElements(e, axis_of(h, mu, e), i, ascending_node_angle(nv, i),
                          periapsis_angle(ev, e, nv, i), mean_anomaly_of(e, v),
                          time)

semi_major_axis(self, central_mass) ==
    LET mu == standard_gravitational_parameter(central_mass)
        r == length(self.position)
        v == length(self.velocity)
    IN  div(mul(mu, r), sub(mul(r, powi2(v)), mul(2 * ONE, mu)))

\* astro::period: the period of an orbit of semi-major axis a.
period_of(a, mass) ==
    mul(TWO_PI, sqrt(div(powi3(a), standard_gravitational_parameter(mass))))

\* StateVectors::period: the semi-major axis from the specific orbital
\* energy, and the period astro::period gives for it.
period(self, central_mass) ==
    LET mu == standard_gravitational_parameter(central_mass)
        r0 == length(self.position)
        v0 == length(self.velocity)
        xi == sub(mul(mul(ONE \div 2, v0), v0), div(mu, r0))
        a == div(neg(mu), mul(2 * ONE, xi))
    IN  [a |-> a, value |-> period_of(a, central_mass)]

\* The literal 0.000001 of propagate_kepler's seed selection, to the nearest
\* Num: it lies below the resolution of the format.
SEED_THRESHOLD == 0

\* The number of passes of propagate_kepler's loop.
KEPLER_ITERATIONS == 500

\* A find_c2c3 without the branch of the constants: the circular formulas
\* from psi = 0 upwards, the hyperbolic ones below.
find_c2c3_two_branches(psi, tolerance) ==
    IF ge(psi, 0)
    THEN LET sqrt_psi == sqrt(psi)
         IN  <<div(sub(ONE, cos(sqrt_psi)), psi),
               div(sub(sqrt_psi, sin(sqrt_psi)), sqrt(powi3(psi)))>>
    ELSE LET sqrt_psi == sqrt(neg(psi))
         IN  <<div(sub(ONE, cosh(sqrt_psi)), psi),
               div(sub(sinh(sqrt_psi), sqrt_psi), sqrt(powi3(neg(psi))))>>

find_c2c3(psi, tolerance) ==
    IF gt(psi, tolerance)
    THEN LET sqrt_psi == sqrt(psi)
         IN  <<div(sub(ONE, cos(sqrt_psi)), psi),
               div(sub(sqrt_psi, sin(sqrt_psi)), sqrt(powi3(psi)))>>
    ELSE IF lt(psi, neg(tolerance))
    THEN LET sqrt_psi == sqrt(neg(psi))
         IN  <<div(sub(ONE, cosh(sqrt_psi)), psi),
               div(sub(sinh(sqrt_psi), sqrt_psi), sqrt(powi3(neg(psi))))>>
    ELSE <<ONE \div 2, div(ONE, 6 * ONE)>>

\* The seed of propagate_kepler's iteration: elliptical, hyperbolic, or
\* near-parabolic when |1/a| is within the threshold.
kepler_seed(self, dt, mu, r0, a, one_over_a, rdotv) ==
    IF gt(one_over_a, SEED_THRESHOLD)
    THEN mul(mul(sqrt(mu), dt), one_over_a)
    ELSE IF lt(one_over_a, neg(SEED_THRESHOLD))
    THEN mul(mul(signum(dt), sqrt(neg(a))),
             ln(div(mul(mul(mul(-2 * ONE, mu), one_over_a), dt),
                    add(rdotv,
                        mul(mul(signum(dt), sqrt(mul(neg(mu), a))),
                            sub(ONE, mul(r0, one_over_a)))))))
    ELSE LET h == cross(self.position, self.velocity)
             p == div(powi2(length(h)), mu)
             s == mul(ONE \div 2,
                      atan(div(ONE,
                               mul(mul(3 * ONE, sqrt(div(mu, powi3(p)))), dt))))
             w == atan(powf_third(tan(s)))
         IN  div(mul(sqrt(p), 2 * ONE), tan(mul(2 * ONE, w)))

\* The specific orbital energy and the semi-major axis propagate_kepler
\* derives from it.
kepler_xi(mu, r0, v0) == sub(mul(mul(ONE \div 2, v0), v0), div(mu, r0))
kepler_a(mu, xi) == div(neg(mu), mul(2 * ONE, xi))

\* propagate_kepler up to its loop: mu, r0, 1/a and the seed x0.
kepler_locals(self, dt, mu, r0, a, rdotv) ==
    [mu |-> mu, r0 |-> r0, one_over_a |-> div(ONE, a), rdotv |-> rdotv,
     x0 |-> kepler_seed(self, dt, mu, r0, a, div(ONE, a), rdotv)]

kepler_setup(self, dt, mass) ==
    kepler_locals(self, dt, standard_gravitational_parameter(mass),
                  length(self.position),
                  kepler_a(standard_gravitational_parameter(mass),
                           kepler_xi(standard_gravitational_parameter(mass),
                                     length(self.position),
                                     length(self.velocity))),
                  dot(self.position, self.velocity))

\* r and new_x of one pass, from psi and the Stumpff values c = <<c2, c3>>.
kepler_update(k, sqrt_mu, dt, x, psi, c2, c3, r) ==
    [psi |-> psi, c2 |-> c2, c3 |-> c3, r |-> r,
     new_x |-> add(x,
                   div(sub(sub(sub(mul(sqrt_mu, dt),
                                   mul(mul(mul(x, x), x), c3)),
                               mul(mul(mul(div(k.rdotv, sqrt_mu), x), x), c2)),
                           mul(mul(k.r0, x), sub(ONE, mul(psi, c3)))),
                       r))]

kepler_r(k, sqrt_mu, x, psi, c2, c3) ==
    add(add(mul(mul(x, x), c2),
            mul(mul(div(k.rdotv, sqrt_mu), x), sub(ONE, mul(psi, c3)))),
        mul(k.r0, sub(ONE, mul(psi, c2))))

kepler_body(k, sqrt_mu, dt, x, psi, c) ==
    kepler_update(k, sqrt_mu, dt, x, psi, c[1], c[2],
                  kepler_r(k, sqrt_mu, x, psi, c[1], c[2]))

kepler_psi(k, dt, tolerance, x, psi) ==
    kepler_body(k, sqrt(k.mu), dt, x, psi, find_c2c3(psi, tolerance))

\* One pass of the loop body at the current x: psi, c2, c3, r and new_x.
kepler_pass(k, dt, tolerance, x) ==
    kepler_psi(k, dt, tolerance, x, mul(mul(x, x), k.one_over_a))

\* The Lagrange coefficients f, g, df, dg applied to the state.
lagrange(self, f, g, df, dg) ==
    StateVectors(vadd(vscale(self.position, f), vscale(self.velocity, g)),
                 vadd(vscale(self.position, df), vscale(self.velocity, dg)))

\* propagate_kepler after its loop: the Lagrange coefficients and the state.
kepler_coefficients(self, k, sqrt_mu, dt, x, r, c2, c3, psi) ==
    lagrange(self,
             sub(ONE, mul(div(powi2(x), k.r0), c2)),
             sub(dt, mul(div(powi3(x), sqrt_mu), c3)),
             mul(mul(div(sqrt_mu, mul(r, k.r0)), x), sub(mul(psi, c3), ONE)),
             sub(ONE, mul(div(powi2(x), r), c2)))

kepler_result(self, k, dt, x, r, c2, c3, psi) ==
    kepler_coefficients(self, k, sqrt(k.mu), dt, x, r, c2, c3, psi)

\* ------------------------------------------------------------------------
\* lib.rs: the KeplerianElements of the crate root
\* ------------------------------------------------------------------------

\* lib.rs has its own KeplerianElements.  Its solvers, mean anomalies,
\* specific_angular_momentum, true_anomaly_at_epoch and the two mean anomaly
\* functions nested in state_vectors_to_orbit are, line for line, those
\* modelled above; what differs is modelled here.

\* The rotation, lines 308-323: the three angles are negated.
lib_perifocal_to_equatorial(self, perifocal) ==
    LET m1 == mul_mat3(Mat3_IDENTITY,
                       Mat3_from_rotation_z(
                           neg(self.right_ascension_of_the_ascending_node)))
        m2 == mul_mat3(m1, Mat3_from_rotation_x(neg(self.inclination)))
        m3 == mul_mat3(m2, Mat3_from_rotation_z(neg(self.argument_of_periapsis)))
    IN  mul_vec3(m3, perifocal)

lib_position_at_true_anomaly(self, mass, v) ==
    LET e == self.eccentricity
        h == specific_angular_momentum(self, mass)
        mu == standard_gravitational_parameter(mass)
        r == div(div(powi2(h), mu), add(ONE, mul(e, cos(v))))
        p == mul(r, cos(v))
        q == mul(r, sin(v))
    IN  lib_perifocal_to_equatorial(self, vec3(p, q, 0))

lib_velocity_at_true_anomaly(self, mass, v) ==
    LET e == self.eccentricity
        h == specific_angular_momentum(self, mass)
        mu == standard_gravitational_parameter(mass)
        vp == mul(neg(div(mu, h)), sin(v))
        vq == mul(div(mu, h), add(e, cos(v)))
    IN  lib_perifocal_to_equatorial(self, vec3(vp, vq, 0))

\* state_vectors_to_orbit, lines 85-93: the node angle, from the node vector
\* Z x h as it is, with no substitute for a vanishing one.
lib_ascending_node_angle(nv, i) ==
    LET raan == acos(div(nv.x, length(nv)))
        wrapped == IF lt(nv.y, 0) THEN sub(TWO_PI, raan) ELSE raan
    IN  IF lt(abs(i), EPSILON) THEN 0 ELSE wrapped

\* state_vectors_to_orbit, lines 96-107: the argument of periapsis; below
\* the reference plane a whole turn is added to the angle.
lib_periapsis_angle(ev, e, nv) ==
    LET argp == acos(div(dot(ev, nv), mul(e, length(nv))))
    IN  IF feq(e, 0) THEN 0
        ELSE IF lt(ev.z, 0) THEN add(TWO_PI, argp) ELSE argp

\* state_vectors_to_orbit, lines 117-121: the true anomaly; on the inbound
\* half of the orbit half a turn is added to the angle.
lib_true_anomaly_angle(self, ev, e) ==
    LET rv == self.position
        v == acos(div(dot(rv, ev), mul(length(rv), e)))
    IN  IF lt(dot(rv, self.velocity), 0) THEN add(PI, v) ELSE v

state_vectors_to_orbit(sv, mass, time) ==
    LET hv == cross(sv.position, sv.velocity)
        h == length(hv)
        nv == cross(Vec3_Z, hv)
        mu == standard_gravitational_parameter(mass)
        ev == eccentricity_vector(sv, mu)
        e == length(ev)
        i == acos(div(hv.z, h))
        v == lib_true_anomaly_angle(sv, ev, e)
    IN  KeplerianElements(e, axis_of(h, mu, e), i, lib_ascending_node_angle(nv, i),
                          lib_periapsis_angle(ev, e, nv), mean_anomaly_of(e, v),
                          time)

\* ------------------------------------------------------------------------
\* utils.rs: the axis adapters
\* ------------------------------------------------------------------------

\* Mat3::from_rotation_x(angle) as the adapters use it, its columns' entries
\* at the working scale.  An f32 keeps the cosine of PI / 2.0, which is about
\* -4.4e-8 and not 0.0, and the product of a component with it shows beside
\* a smaller component; rounded to a Num that cosine would be 0, so the
\* entries stay at the working scale and each product is rounded once.
Mat3_from_rotation_x_hi(angle) ==
    <<<<HI, 0, 0>>,
      <<0, CosHi(Reduce(angle)), SinHi(Reduce(angle))>>,
      <<0, -SinHi(Reduce(angle)), CosHi(Reduce(angle))>>>>

\* The product of a matrix entry c and a component a.
mul_entry(c, a) ==
    IF a = NAN THEN NAN
    ELSE IF ~is_finite(a) THEN (IF c = 0 THEN NAN ELSE Sign(c) * a)
    ELSE Sign(c) * Sign(a) * MulHi(Mag(c), Mag(a))

\* m.mul_vec3(v) for such a matrix, row by row.
mul_vec3_row(m, v, i) ==
    add(add(mul_entry(m[1][i], v.x), mul_entry(m[2][i], v.y)),
        mul_entry(m[3][i], v.z))

mul_vec3_hi(m, v) ==
    vec3(mul_vec3_row(m, v, 1), mul_vec3_row(m, v, 2), mul_vec3_row(m, v, 3))

\* zup2yup(p) = Mat3::from_rotation_x(-PI / 2.0).mul_vec3(p)
zup2yup(p) == mul_vec3_hi(Mat3_from_rotation_x_hi(div(neg(PI), 2 * ONE)), p)

\* yup2zup(p) = Mat3::from_rotation_x(PI / 2.0).mul_vec3(p)
yup2zup(p) == mul_vec3_hi(Mat3_from_rotation_x_hi(div(PI, 2 * ONE)), p)

\* ------------------------------------------------------------------------
\* orbit_viewer: trajectory.rs
\* ------------------------------------------------------------------------

\* No value: a frame that is not active, a call that has not returned.
None == [none |-> TRUE]

\* What a call that panicked has in place of a result.
Panic == [panic |-> TRUE]

\* TrajectorySegment.
TrajectorySegment(entry, entry_sv, parent) ==
    [entry |-> entry, entry_sv |-> entry_sv, parent |-> parent]

\* The loop of find_soi_at_position over the bodies in the order the query
\* yields them, with soi_parent and d as they stand.  A body is an entity
\* with its position (of Planet.state_vectors), its mass and its parent;
\* parent = None is a body with no PlanetParent component.
RECURSIVE soi_scan(_, _, _, _, _)
soi_scan(starting_sv, planets, order, soi_parent, d) ==
    IF order = <<>> THEN [soi_parent |-> soi_parent, d |-> d]
    ELSE LET entity == Head(order)
             planet == planets[entity]
         IN  IF planet.parent = None
             THEN soi_scan(starting_sv, planets, Tail(order), entity, d)
             ELSE IF planet.parent \notin DOMAIN planets
             THEN Panic
             ELSE LET central_mass == planets[planet.parent].mass
                      offset == planets[planet.parent].position
                      real_soi_center == vadd(planet.position, offset)
                      radius == soi(length(planet.position), planet.mass,
                                    central_mass)
                      new_d == length(vsub(real_soi_center,
                                           starting_sv.position))
                  IN  IF lt(new_d, radius) /\ lt(new_d, d)
                      THEN soi_scan(starting_sv, planets, Tail(order), entity,
                                    new_d)
                      ELSE soi_scan(starting_sv, planets, Tail(order),
                                    soi_parent, d)

\* find_soi_at_position: the scan from soi_parent = None and d = f32::MAX,
\* then soi_parent.expect(..).
find_soi_at_position(starting_sv, planets, order) ==
    LET found == soi_scan(starting_sv, planets, order, None, MAXF)
    IN  IF found = Panic \/ found.soi_parent = None THEN Panic
        ELSE found.soi_parent

\* ------------------------------------------------------------------------
\* orbit_viewer: planet.rs, update.rs
\* ------------------------------------------------------------------------

\* newton_approx as a whole call from the iterate x: Ok of the first x_next
\* that meets the tolerance, or the panic after MAX_STEPS passes.
RECURSIVE newton_approx(_, _, _, _, _, _)
newton_approx_pass(kind, e, M, epsilon, x, steps, x_next) ==
    IF newton_converged(x_next, x, epsilon) THEN [ok |-> x_next]
    ELSE newton_approx(kind, e, M, epsilon, x_next, steps + 1)

newton_approx(kind, e, M, epsilon, x, steps) ==
    IF steps = MAX_STEPS THEN Panic
    ELSE newton_approx_pass(kind, e, M, epsilon, x, steps,
                            newton_next(kind, e, M, x))

\* KeplerianElements::state_vectors_at_epoch as a whole call.
state_vectors_from(self, mass, E) ==
    IF E = Panic THEN Panic
    ELSE state_vectors_of(self, mass, true_anomaly_of(self, E.ok))

state_vectors_solved(self, mass, M, tolerance) ==
    state_vectors_from(self, mass,
                       newton_approx(anomaly_kind(self), self.eccentricity, M,
                                     tolerance, M, 0))

state_vectors_at_epoch(self, mass, epoch, tolerance) ==
    state_vectors_solved(self, mass, solver_mean_anomaly(self, mass, epoch),
                         tolerance)

\* The locals of propagate_kepler's loop after one more pass, p: left says
\* that the loop was left, by its break or after its last pass.
kepler_loop_pass(locals, tolerance, p) ==
    IF lt(abs(sub(p.new_x, locals.x)), tolerance)
    THEN [x |-> locals.x, r |-> p.r, c2 |-> p.c2, c3 |-> p.c3, psi |-> p.psi,
          passes |-> locals.passes, left |-> TRUE]
    ELSE [x |-> p.new_x, r |-> p.r, c2 |-> p.c2, c3 |-> p.c3, psi |-> p.psi,
          passes |-> locals.passes + 1,
          left |-> locals.passes + 1 = KEPLER_ITERATIONS]

\* The loop of propagate_kepler as a whole: the locals after at most n more
\* passes, the passes taken half by half.
RECURSIVE kepler_loop(_, _, _, _, _)
kepler_loop(k, dt, tolerance, locals, n) ==
    IF locals.left \/ n = 0 THEN locals
    ELSE IF n = 1
    THEN kepler_loop_pass(locals, tolerance,
                          kepler_pass(k, dt, tolerance, locals.x))
    ELSE kepler_loop(k, dt, tolerance,
                     kepler_loop(k, dt, tolerance, locals, n \div 2),
                     n - n \div 2)

\* StateVectors::propagate_kepler as a whole call: the new state, or the
\* panic on a NaN in it.
propagate_kepler_checked(ret) ==
    IF vec_is_nan(ret.position) \/ vec_is_nan(ret.velocity) THEN Panic ELSE ret

propagate_kepler_after(self, k, dt, locals) ==
    propagate_kepler_checked(kepler_result(self, k, dt, locals.x, locals.r,
                                           locals.c2, locals.c3, locals.psi))

propagate_kepler_with(self, k, dt, tolerance) ==
    propagate_kepler_after(self, k, dt,
                           kepler_loop(k, dt, tolerance,
                                       [x |-> k.x0, r |-> 0, c2 |-> 0, c3 |-> 0,
                                        psi |-> 0, passes |-> 0, left |-> FALSE],
                                       KEPLER_ITERATIONS))

propagate_kepler(self, dt, mass, tolerance) ==
    propagate_kepler_with(self, kepler_setup(self, dt, mass), dt, tolerance)

\* A planet entity: the fields of its Planet component, the values of the
\* components PlanetMass, PlanetParent and Transform, and in has which of
\* these three the entity has.  applied is a record kept for the
\* properties: the dt of every propagate_kepler that update::planets ran
\* on the planet.
PlanetEntity(orbit, state_vectors, last_update_epoch, mass, parent, has) ==
    [orbit |-> orbit, state_vectors |-> state_vectors,
     last_update_epoch |-> last_update_epoch, mass |-> mass, parent |-> parent,
     translation |-> vec3(0, 0, 0), scale |-> vec3(ONE, ONE, ONE),
     has |-> has, applied |-> <<>>]

\* PlanetBuilder::new(orbit, mass), with_parent when there is one, and
\* build(central_mass, tolerance), spawned with the components has.
PlanetBuilder(orbit, mass, parent, central_mass, tolerance, has) ==
    PlanetEntity(orbit, state_vectors_at_epoch(orbit, central_mass, 0, tolerance),
                 0, mass, parent, has)

\* mass2radius of main.rs
mass2radius(settings, mass) == mul(mass, settings.distance_scaling)

\* A pass of the loop of update::planets that reaches its end stamps the
\* planet with the dt it was propagated by but not with the epoch.
planets_update_unstamped(w, entity, dt, offset, new_sv) ==
    IF new_sv = Panic THEN [w EXCEPT !.panicked = TRUE]
    ELSE [w EXCEPT
             !.planets[entity].state_vectors = new_sv,
             !.planets[entity].translation =
                 vadd(offset, vscale(zup2yup(new_sv.position),
                                     w.state.distance_scaling)),
             !.planets[entity].scale =
                 vscale(vscale(vec3(ONE, ONE, ONE), ONE \div 10),
                        mass2radius(w.state, w.planets[entity].mass)),
             !.planets[entity].applied = Append(@, dt)]

\* The end of a pass of the loop of update::planets: the planet takes the
\* propagated state and the epoch, and its Transform the translation and
\* the scale.
planets_update(w, entity, dt, offset, new_sv) ==
    IF new_sv = Panic THEN [w EXCEPT !.panicked = TRUE]
    ELSE [w EXCEPT
             !.planets[entity].state_vectors = new_sv,
             !.planets[entity].last_update_epoch = w.epoch,
             !.planets[entity].translation =
                 vadd(offset, vscale(zup2yup(new_sv.position),
                                     w.state.distance_scaling)),
             !.planets[entity].scale =
                 vscale(vscale(vec3(ONE, ONE, ONE), ONE \div 10),
                        mass2radius(w.state, w.planets[entity].mass)),
             !.planets[entity].applied = Append(@, dt)]

\* The central mass a planet is propagated about: its parent's PlanetMass,
\* or the star's mass.
planets_central_mass(w, planet) ==
    IF planet.parent # None THEN w.planets[planet.parent].mass
    ELSE w.state.star_mass

planets_offset(w, planet) ==
    IF planet.parent # None THEN w.planets[planet.parent].translation
    ELSE vec3(0, 0, 0)

\* One pass of the loop of update::planets.  A planet without PlanetParent
\* or without Transform is passed over; a parent without PlanetMass or
\* without Transform, and a planet without PlanetMass, are panics.
planets_pass(w, entity, planet) ==
    IF "PlanetParent" \notin planet.has THEN w
    ELSE IF planet.parent # None
            /\ (planet.parent \notin DOMAIN w.planets
                \/ "PlanetMass" \notin w.planets[planet.parent].has
                \/ "Transform" \notin w.planets[planet.parent].has)
    THEN [w EXCEPT !.panicked = TRUE]
    ELSE IF "Transform" \notin planet.has THEN w
    ELSE IF "PlanetMass" \notin planet.has THEN [w EXCEPT !.panicked = TRUE]
    ELSE planets_update(w, entity, sub(w.epoch, planet.last_update_epoch),
                        planets_offset(w, planet),
                        propagate_kepler(planet.state_vectors,
                                         sub(w.epoch, planet.last_update_epoch),
                                         planets_central_mass(w, planet),
                                         w.state.tolerance))

\* update::planets over the entities in the order the query yields them; a
\* panic ends it.
RECURSIVE planets_loop(_, _)
planets_loop(w, order) ==
    IF order = <<>> \/ w.panicked THEN w
    ELSE planets_loop(planets_pass(w, Head(order), w.planets[Head(order)]),
                      Tail(order))

\* ------------------------------------------------------------------------
\* The state machine
\* ------------------------------------------------------------------------

VARIABLES
    pc,         \* where control is
    leg,        \* which call of a sequence of calls is under way (1, 2)
    elements,   \* the KeplerianElements a forward conversion is called on
    state0,     \* the StateVectors the first call was made on
    state,      \* the StateVectors the current call is made on
    mass,       \* the central mass passed to every call
    epoch,      \* the epoch (time) passed to the conversions
    tolerance,  \* the tolerance passed to the solver and the propagator
    dt,         \* the elapsed time passed to propagate_kepler
    nf,         \* newton_approx's frame: its arguments, x and the pass count
    kf,         \* propagate_kepler's locals: x, r, c2, c3, psi and the pass count
    out,        \* what the last completed call returned
    stdout,     \* lines written to the standard output
    stderr,     \* lines written to the standard error
    threads,    \* the calls that run concurrently, each with its own locals
    world       \* the viewer's entities, resources and pending events

vars == <<pc, leg, elements, state0, state, mass, epoch, tolerance, dt, nf, kf,
          out, stdout, stderr, threads, world>>


\* state_vectors_at_epoch, from its entry to the call of newton_approx: the
\* two println!, then true_anomaly_at_epoch, which picks the solver by
\* is_hyperbolic; the solver computes M and calls newton_approx(f, f', M,
\* tolerance).
StateVectorsAtEpoch ==
    /\ pc = "elements_ready"
    /\ stdout' = stdout + 2
    /\ nf' = [kind |-> anomaly_kind(elements),
              e |-> elements.eccentricity,
              M |-> solver_mean_anomaly(elements, mass, epoch),
              x0 |-> solver_mean_anomaly(elements, mass, epoch),
              epsilon |-> tolerance,
              x |-> solver_mean_anomaly(elements, mass, epoch),
              steps |-> 0]
    /\ pc' = "newton_approx"
    /\ UNCHANGED <<threads, world>>
    /\ UNCHANGED <<leg, elements, state0, state, mass, epoch, tolerance, dt, kf,
                   out, stderr>>

\* A loop that returns the iterate it stepped from, x, not x_next.
NewtonPass_returns_x ==
    /\ pc = "newton_approx"
    /\ nf.steps < MAX_STEPS
    /\ LET x_next == newton_next(nf.kind, nf.e, nf.M, nf.x)
       IN  IF newton_converged(x_next, nf.x, nf.epsilon)
           THEN /\ out' = nf.x
                /\ pc' = "newton_returned"
                /\ nf' = nf
           ELSE /\ nf' = [nf EXCEPT !.x = x_next, !.steps = @ + 1]
                /\ UNCHANGED <<out, pc>>
    /\ UNCHANGED <<threads, world>>
    /\ UNCHANGED <<leg, elements, state0, state, mass, epoch, tolerance, dt, kf,
                   stdout, stderr>>

\* One pass of newton_approx's loop: return x_next when the step is
\* shorter than epsilon, go on from x_next otherwise.
NewtonPass ==
    /\ pc = "newton_approx"
    /\ nf.steps < MAX_STEPS
    /\ LET x_next == newton_next(nf.kind, nf.e, nf.M, nf.x)
       IN  IF newton_converged(x_next, nf.x, nf.epsilon)
           THEN /\ out' = x_next
                /\ pc' = "newton_returned"
                /\ nf' = nf
           ELSE /\ nf' = [nf EXCEPT !.x = x_next, !.steps = @ + 1]
                /\ UNCHANGED <<out, pc>>
    /\ UNCHANGED <<threads, world>>
    /\ UNCHANGED <<leg, elements, state0, state, mass, epoch, tolerance, dt, kf,
                   stdout, stderr>>

\* A loop that returns its last iterate once MAX_STEPS passes have run.
NewtonPanic_returns_x ==
    /\ pc = "newton_approx"
    /\ nf.steps = MAX_STEPS
    /\ pc' = "newton_returned"
    /\ out' = nf.x
    /\ UNCHANGED <<threads, world>>
    /\ UNCHANGED <<leg, elements, state0, state, mass, epoch, tolerance, dt, nf,
                   kf, stdout, stderr>>

\* The loop has run MAX_STEPS passes: panic!.  Nothing up the call chain
\* catches it.
NewtonPanic ==
    /\ pc = "newton_approx"
    /\ nf.steps = MAX_STEPS
    /\ pc' = "panicked"
    /\ out' = None
    /\ UNCHANGED <<threads, world>>
    /\ UNCHANGED <<leg, elements, state0, state, mass, epoch, tolerance, dt, nf,
                   kf, stdout, stderr>>

\* newton_approx has returned the anomaly: true_anomaly_at_epoch turns it
\* into the true anomaly and state_vectors_at_epoch returns the position and
\* the velocity there.
StateVectorsReturn ==
    /\ pc = "newton_returned"
    /\ elements # None
    /\ out' = state_vectors_of(elements, mass, true_anomaly_of(elements, out))
    /\ state' = out'
    /\ pc' = "state_ready"
    /\ UNCHANGED <<threads, world>>
    /\ UNCHANGED <<leg, elements, state0, mass, epoch, tolerance, dt, nf, kf, stdout,
                   stderr>>

\* An inverse conversion that hands its mean anomaly to newton_approx for
\* refinement, as the forward conversion does with the one it computes.
ToElements_by_iteration ==
    /\ pc = "state_ready"
    /\ LET el == to_elements(state, mass, epoch)
       IN  nf' = [kind |-> anomaly_kind(el), e |-> el.eccentricity,
                  M |-> el.mean_anomaly_at_epoch,
                  x0 |-> el.mean_anomaly_at_epoch, epsilon |-> tolerance,
                  x |-> el.mean_anomaly_at_epoch, steps |-> 0]
    /\ pc' = "newton_approx"
    /\ UNCHANGED <<threads, world>>
    /\ UNCHANGED <<leg, elements, state0, state, mass, epoch, tolerance, dt, kf,
                   out, stdout, stderr>>

\* to_elements(mass, epoch) on the current state vectors.
ToElements ==
    /\ pc = "state_ready"
    /\ out' = to_elements(state, mass, epoch)
    /\ pc' = "elements_returned"
    /\ UNCHANGED <<threads, world>>
    /\ UNCHANGED <<leg, elements, state0, state, mass, epoch, tolerance, dt, nf,
                   kf, stdout, stderr>>

\* A call of StateVectors::semi_major_axis(mass) on the current state.
SemiMajorAxis ==
    /\ pc = "state_ready"
    /\ out' = semi_major_axis(state, mass)
    /\ pc' = "axis_returned"
    /\ UNCHANGED <<threads, world>>
    /\ UNCHANGED <<leg, elements, state0, state, mass, epoch, tolerance, dt, nf,
                   kf, stdout, stderr>>

\* A call of StateVectors::period(mass) on the current state; the a it
\* computes on the way is kept beside the value it returns.
Period ==
    /\ pc = "state_ready"
    /\ out' = period(state, mass)
    /\ pc' = "period_returned"
    /\ UNCHANGED <<threads, world>>
    /\ UNCHANGED <<leg, elements, state0, state, mass, epoch, tolerance, dt, nf,
                   kf, stdout, stderr>>

\* propagate_kepler, from its entry to its loop.
PropagateKepler ==
    /\ pc = "state_ready"
    /\ kf' = [x |-> kepler_setup(state, dt, mass).x0, r |-> 0, c2 |-> 0,
              c3 |-> 0, psi |-> 0, passes |-> 0]
    /\ pc' = "kepler_loop"
    /\ UNCHANGED <<threads, world>>
    /\ UNCHANGED <<leg, elements, state0, state, mass, epoch, tolerance, dt, nf,
                   out, stdout, stderr>>

\* A loop whose last pass, when it does not break, goes round once more.
KeplerPass_once_more ==
    /\ pc = "kepler_loop"
    /\ kf.passes <= KEPLER_ITERATIONS
    /\ \E p \in {kepler_pass(kepler_setup(state, dt, mass), dt, tolerance, kf.x)} :
       \E broke \in {lt(abs(sub(p.new_x, kf.x)), tolerance)} :
           /\ kf' = [x |-> IF broke THEN kf.x ELSE p.new_x,
                     r |-> p.r, c2 |-> p.c2, c3 |-> p.c3, psi |-> p.psi,
                     passes |-> IF broke THEN kf.passes ELSE kf.passes + 1]
           /\ pc' = IF broke \/ kf.passes + 1 > KEPLER_ITERATIONS
                    THEN "kepler_after_loop" ELSE "kepler_loop"
    /\ UNCHANGED <<threads, world>>
    /\ UNCHANGED <<leg, elements, state0, state, mass, epoch, tolerance, dt, nf,
                   out, stdout, stderr>>

\* One pass of propagate_kepler's loop.  A pass that meets the tolerance
\* breaks out and leaves x as it was; the last of the KEPLER_ITERATIONS
\* passes falls out of the loop with x = new_x.
KeplerPass ==
    /\ pc = "kepler_loop"
    /\ kf.passes < KEPLER_ITERATIONS
    /\ \E p \in {kepler_pass(kepler_setup(state, dt, mass), dt, tolerance, kf.x)} :
       \E broke \in {lt(abs(sub(p.new_x, kf.x)), tolerance)} :
           /\ kf' = [x |-> IF broke THEN kf.x ELSE p.new_x,
                     r |-> p.r, c2 |-> p.c2, c3 |-> p.c3, psi |-> p.psi,
                     passes |-> IF broke THEN kf.passes ELSE kf.passes + 1]
           /\ pc' = IF broke \/ kf.passes + 1 = KEPLER_ITERATIONS
                    THEN "kepler_after_loop" ELSE "kepler_loop"
    /\ UNCHANGED <<threads, world>>
    /\ UNCHANGED <<leg, elements, state0, state, mass, epoch, tolerance, dt, nf,
                   out, stdout, stderr>>

\* propagate_kepler after its loop: the new state; a NaN in it is reported
\* on the standard error and the call panics, anything else is returned.
KeplerReturn ==
    /\ pc = "kepler_after_loop"
    /\ \E ret \in {kepler_result(state, kepler_setup(state, dt, mass), dt, kf.x,
                                  kf.r, kf.c2, kf.c3, kf.psi)} :
           IF vec_is_nan(ret.position) \/ vec_is_nan(ret.velocity)
           THEN /\ stderr' = stderr + 1
                /\ pc' = "panicked"
                /\ out' = None
           ELSE /\ out' = ret
                /\ pc' = "state_returned"
                /\ UNCHANGED stderr
    /\ UNCHANGED <<threads, world>>
    /\ UNCHANGED <<leg, elements, state0, state, mass, epoch, tolerance, dt, nf,
                   kf, stdout>>

\* The caller propagates the state it got back by the opposite time.
Reverse ==
    /\ pc = "state_returned"
    /\ leg = 1
    /\ leg' = 2
    /\ state' = out
    /\ dt' = neg(dt)
    /\ pc' = "state_ready"
    /\ UNCHANGED <<threads, world>>
    /\ UNCHANGED <<elements, state0, mass, epoch, tolerance, nf, kf, out, stdout,
                   stderr>>

\* The names of the node, apsis and normal wrappers of KeplerianElements.
Wrappers == {"ascending_node", "descending_node", "periapsis", "apoapsis", "normal"}

\* A call of one of the wrappers on the elements.
Wrapper ==
    /\ pc = "elements_ready"
    /\ \E name \in Wrappers :
           out' = [name |-> name, value |-> wrapper(name, elements, mass)]
    /\ pc' = "wrapper_returned"
    /\ UNCHANGED <<threads, world>>
    /\ UNCHANGED <<leg, elements, state0, state, mass, epoch, tolerance, dt, nf,
                   kf, stdout, stderr>>

\* Sampled true anomalies: whole quarter turns.
MaxQuarter == 3

TrueAnomalies == {mul(k * ONE, div(PI, 2 * ONE)) : k \in 0..MaxQuarter}

\* A call of position_at_true_anomaly(mass, v) on the elements.
PositionAtTrueAnomaly ==
    /\ pc = "elements_ready"
    /\ \E v \in TrueAnomalies :
           out' = [v |-> v, value |-> position_at_true_anomaly(elements, mass, v)]
    /\ pc' = "position_returned"
    /\ UNCHANGED <<threads, world>>
    /\ UNCHANGED <<leg, elements, state0, state, mass, epoch, tolerance, dt, nf,
                   kf, stdout, stderr>>

\* ------------------------------------------------------------------------
\* Forward conversion, then inverse conversion
\* ------------------------------------------------------------------------

\* Sampled elements.  Eccentricities 0, 0.3, 0.6, ..., semi-major axes 1.0,
\* 2.0, ..., mean anomalies 0, 1.5, 3.0, ... radians; to these are added
\* elements on the parabolic boundary (e = 1) and beyond it (e = 1.5).
MaxEcc == 3
MaxAxis == 2
MaxAngle == 3

Eccentricities == {300 * k : k \in 0..MaxEcc}
Axes == {ONE * k : k \in 1..MaxAxis}
Angles == {1500 * k : k \in 0..MaxAngle}

GridElements ==
    {KeplerianElements(e, a, i, raan, argp, M0, 0) :
        e \in Eccentricities, a \in Axes, i \in {0, 1500}, raan \in {0, 1500},
        argp \in {0, 4500}, M0 \in Angles}

BoundaryElements ==
    {KeplerianElements(ONE, ONE, 1500, 0, 0, 0, 0)}
        \cup {KeplerianElements(1500, ONE, i, 1500, 0, M0, 0) :
                 i \in {0, 1500}, M0 \in {0, 1500}}

\* The circular orbit of radius 1 in the reference plane, and the central
\* masses it is sampled about: 1.0, 2.0, ...
UnitOrbit == KeplerianElements(0, ONE, 0, 0, 0, 0, 0)

MaxMass == 3

Masses == {ONE * k : k \in 1..MaxMass}

InitElements ==
    /\ pc = "elements_ready"
    /\ leg = 1
    /\ elements \in GridElements \cup BoundaryElements
    /\ state0 = None
    /\ state = None
    /\ mass \in IF elements = UnitOrbit THEN Masses ELSE {ONE}
    /\ epoch \in {0, ONE}
    /\ tolerance = 10
    /\ dt = 0
    /\ nf = None
    /\ kf = None
    /\ out = None
    /\ stdout = 0
    /\ stderr = 0
    /\ threads = None
    /\ world = None

\* Sampled state vectors: every component of the position and of the
\* velocity a whole number of units between -MaxCoord and MaxCoord.
MaxCoord == 1

Coords == {ONE * k : k \in -MaxCoord..MaxCoord}
Vectors == {vec3(x, y, z) : x \in Coords, y \in Coords, z \in Coords}

InitState ==
    /\ pc = "state_ready"
    /\ leg = 1
    /\ elements = None
    /\ state \in {StateVectors(p, v) : p \in Vectors, v \in Vectors}
    /\ state0 = state
    /\ mass = ONE
    /\ epoch = 0
    /\ tolerance = 10
    /\ dt = 0
    /\ nf = None
    /\ kf = None
    /\ out = None
    /\ stdout = 0
    /\ stderr = 0
    /\ threads = None
    /\ world = None

\* A call of soi(r, m1, m2), at whole distances and at masses that are whole
\* or one unit of the format above.
Soi ==
    /\ pc = "soi_ready"
    /\ \E r \in Axes, m1 \in Masses, m2 \in Masses, j1 \in {0, 1}, j2 \in {0, 1} :
           out' = [r |-> r, m1 |-> m1 + j1, m2 |-> m2 + j2,
                   value |-> soi(r, m1 + j1, m2 + j2)]
    /\ pc' = "soi_returned"
    /\ UNCHANGED <<threads, world>>
    /\ UNCHANGED <<leg, elements, state0, state, mass, epoch, tolerance, dt, nf,
                   kf, stdout, stderr>>

InitSoi ==
    /\ pc = "soi_ready"
    /\ leg = 1
    /\ elements = None
    /\ state0 = None
    /\ state = None
    /\ mass = 0
    /\ epoch = 0
    /\ tolerance = 0
    /\ dt = 0
    /\ nf = None
    /\ kf = None
    /\ out = None
    /\ stdout = 0
    /\ stderr = 0
    /\ threads = None
    /\ world = None

Init == InitElements \/ InitState \/ InitSoi

NextElements ==
    \/ StateVectorsAtEpoch
    \/ NewtonPass
    \/ NewtonPanic
    \/ StateVectorsReturn
    \/ ToElements
    \/ SemiMajorAxis
    \/ Period
    \/ Wrapper
    \/ PositionAtTrueAnomaly
    \/ Soi

Spec == Init /\ [][NextElements]_vars

\* ------------------------------------------------------------------------
\* Propagation, forth and back
\* ------------------------------------------------------------------------

MaxTime == 2

Times == {ONE * k : k \in -MaxTime..MaxTime}

\* Sampled calls of propagate_kepler: states in the reference plane about a
\* unit mass, at the tolerance of one unit of the format and of ten; and a
\* slow state off the plane about a tenth of that mass, propagated for a long
\* time at a tolerance too wide to refine the seed.
KeplerCalls ==
    {[state |-> StateVectors(vec3(x, 0, 0), vec3(vx, vy, 0)), mass |-> ONE,
      tolerance |-> t, dt |-> d] :
        x \in {ONE, 2 * ONE}, vx \in Coords, vy \in Coords \ {0},
        t \in {1, 10}, d \in Times}
        \cup {[state |-> StateVectors(vec3(ONE, ONE, ONE), vec3(100, 100, 100)),
               mass |-> 100, tolerance |-> 3000 * ONE, dt |-> 150 * ONE]}

InitKepler ==
    /\ pc = "state_ready"
    /\ leg = 1
    /\ elements = None
    /\ \E call \in KeplerCalls :
           /\ state = call.state
           /\ mass = call.mass
           /\ tolerance = call.tolerance
           /\ dt = call.dt
    /\ state0 = state
    /\ epoch = 0
    /\ nf = None
    /\ kf = None
    /\ out = None
    /\ stdout = 0
    /\ stderr = 0
    /\ threads = None
    /\ world = None

NextKepler ==
    \/ PropagateKepler
    \/ KeplerPass
    \/ KeplerReturn
    \/ Reverse

SpecKepler == InitKepler /\ [][NextKepler]_vars

\* ------------------------------------------------------------------------
\* The loops on inputs that do not converge
\* ------------------------------------------------------------------------

\* Sampled calls of astro::elliptic::estimate_anomaly and
\* astro::hyperbolic::estimate_anomaly: one that converges; a tolerance of
\* zero and a negative one; a mean anomaly that is NaN; and e = 1 at M = 0,
\* where f and f' are both 0.
AnomalyCalls ==
    {[kind |-> "elliptic", e |-> 300, M |-> 1500, tolerance |-> t] :
        t \in {10, 0, -ONE}}
        \cup {[kind |-> "elliptic", e |-> 300, M |-> NAN, tolerance |-> 10],
              [kind |-> "hyperbolic", e |-> ONE, M |-> 0, tolerance |-> 10]}

\* estimate_anomaly(M, e, tolerance) of astro::elliptic or
\* astro::hyperbolic: the call of newton_approx(f, f', M, tolerance).
EstimateAnomaly ==
    /\ pc = "anomaly_ready"
    /\ \E a \in AnomalyCalls :
           /\ nf' = [kind |-> a.kind, e |-> a.e, M |-> a.M, x0 |-> a.M,
                     epsilon |-> a.tolerance, x |-> a.M, steps |-> 0]
           /\ tolerance' = a.tolerance
    /\ pc' = "newton_approx"
    /\ UNCHANGED <<threads, world>>
    /\ UNCHANGED <<leg, elements, state0, state, mass, epoch, dt, kf, out,
                   stdout, stderr>>

\* estimate_anomaly returns what newton_approx returned.
EstimateAnomalyReturn ==
    /\ pc = "newton_returned"
    /\ elements = None
    /\ pc' = "anomaly_returned"
    /\ UNCHANGED <<threads, world>>
    /\ UNCHANGED <<leg, elements, state0, state, mass, epoch, tolerance, dt, nf,
                   kf, out, stdout, stderr>>

\* Sampled calls of propagate_kepler: an elliptic state at a tolerance of
\* ten units of the format, of zero and of minus one; a state with a NaN
\* coordinate; and a time that is NaN.
LoopKeplerCalls ==
    {[state |-> StateVectors(vec3(ONE, 0, 0), vec3(0, 1200, 500)),
      tolerance |-> t, dt |-> 2 * ONE] : t \in {10, 0, -ONE}}
        \cup {[state |-> StateVectors(vec3(NAN, 0, 0), vec3(0, 1200, 500)),
               tolerance |-> 10, dt |-> 2 * ONE],
              [state |-> StateVectors(vec3(ONE, 0, 0), vec3(0, 1200, 500)),
               tolerance |-> 10, dt |-> NAN]}

InitLoops ==
    /\ leg = 1
    /\ mass = ONE
    /\ epoch = 0
    /\ state0 = None
    /\ nf = None
    /\ kf = None
    /\ out = None
    /\ stdout = 0
    /\ stderr = 0
    /\ threads = None
    /\ world = None
    /\ \/ /\ pc = "anomaly_ready"
          /\ elements = None
          /\ state = None
          /\ tolerance = 0
          /\ dt = 0
       \/ /\ pc = "elements_ready"
          /\ elements = KeplerianElements(300, ONE, 1500, 0, 0, 1500, 0)
          /\ state = None
          /\ tolerance \in {10, 0}
          /\ dt = 2 * ONE
       \/ /\ pc = "state_ready"
          /\ elements = None
          /\ \E c \in LoopKeplerCalls :
                 /\ state = c.state
                 /\ tolerance = c.tolerance
                 /\ dt = c.dt

NextLoops ==
    \/ EstimateAnomaly
    \/ StateVectorsAtEpoch
    \/ NewtonPass
    \/ NewtonPanic
    \/ EstimateAnomalyReturn
    \/ StateVectorsReturn
    \/ PropagateKepler
    \/ KeplerPass
    \/ KeplerReturn

SpecLoops == InitLoops /\ [][NextLoops]_vars

\* ------------------------------------------------------------------------
\* lib.rs: calls
\* ------------------------------------------------------------------------

\* state_vectors_to_orbit(sv, mass, time) on the current state vectors.
StateVectorsToOrbit ==
    /\ pc = "lib_state_ready"
    /\ out' = state_vectors_to_orbit(state, mass, epoch)
    /\ elements' = out'
    /\ pc' = "lib_elements_ready"
    /\ UNCHANGED <<threads, world>>
    /\ UNCHANGED <<leg, state0, state, mass, epoch, tolerance, dt, nf, kf,
                   stdout, stderr>>

\* lib.rs state_vectors_at_epoch, lines 271-279, to the call of
\* newton_approx: it prints nothing.
LibStateVectorsAtEpoch ==
    /\ pc = "lib_elements_ready"
    /\ nf' = [kind |-> anomaly_kind(elements),
              e |-> elements.eccentricity,
              M |-> solver_mean_anomaly(elements, mass, epoch),
              x0 |-> solver_mean_anomaly(elements, mass, epoch),
              epsilon |-> tolerance,
              x |-> solver_mean_anomaly(elements, mass, epoch),
              steps |-> 0]
    /\ pc' = "newton_approx"
    /\ UNCHANGED <<threads, world>>
    /\ UNCHANGED <<leg, elements, state0, state, mass, epoch, tolerance, dt, kf,
                   out, stdout, stderr>>

\* lib.rs state_vectors_at_epoch once newton_approx has returned.
LibStateVectorsReturn ==
    /\ pc = "newton_returned"
    /\ out' = StateVectors(
                 lib_position_at_true_anomaly(elements, mass,
                                              true_anomaly_of(elements, out)),
                 lib_velocity_at_true_anomaly(elements, mass,
                                              true_anomaly_of(elements, out)))
    /\ state' = out'
    /\ pc' = "lib_state_returned"
    /\ UNCHANGED <<threads, world>>
    /\ UNCHANGED <<leg, elements, state0, mass, epoch, tolerance, dt, nf, kf,
                   stdout, stderr>>

\* A call of lib.rs position_at_true_anomaly(mass, v) on the elements.
LibPositionAtTrueAnomaly ==
    /\ pc = "lib_elements_ready"
    /\ \E v \in TrueAnomalies :
           out' = [v |-> v,
                   value |-> lib_position_at_true_anomaly(elements, mass, v)]
    /\ pc' = "lib_position_returned"
    /\ UNCHANGED <<threads, world>>
    /\ UNCHANGED <<leg, elements, state0, state, mass, epoch, tolerance, dt, nf,
                   kf, stdout, stderr>>

\* Sampled calls: the unit orbit about each mass, and states a fifth of a
\* coordinate off (1, 0, 0), moving at 1.2 across the radius, a fifth of a
\* coordinate along it and half a coordinate off the plane; and the state
\* of the unit orbit itself.
LibStates ==
    {StateVectors(vec3(ONE, 0, z \div 5), vec3(vx \div 5, 1200, vz \div 2)) :
        z \in Coords, vx \in Coords, vz \in Coords}
        \cup {StateVectors(vec3(ONE, 0, 0), vec3(0, ONE, 0))}

InitLib ==
    /\ leg = 1
    /\ \/ /\ pc = "lib_state_ready"
          /\ state \in LibStates
          /\ elements = None
          /\ mass = ONE
       \/ /\ pc = "lib_elements_ready"
          /\ state = None
          /\ elements = UnitOrbit
          /\ mass \in Masses
    /\ state0 = state
    /\ epoch = 0
    /\ tolerance = 10
    /\ dt = 0
    /\ nf = None
    /\ kf = None
    /\ out = None
    /\ stdout = 0
    /\ stderr = 0
    /\ threads = None
    /\ world = None

NextLib ==
    \/ StateVectorsToOrbit
    \/ LibStateVectorsAtEpoch
    \/ NewtonPass
    \/ NewtonPanic
    \/ LibStateVectorsReturn
    \/ LibPositionAtTrueAnomaly

SpecLib == InitLib /\ [][NextLib]_vars

\* ------------------------------------------------------------------------
\* Concurrent calls
\* ------------------------------------------------------------------------

\* A call about to start: its operation and its arguments, which it holds
\* by value, and its locals, which live in its own stack frame.
call(a) ==
    [op |-> a.op, args |-> a, pc |-> a.op, nf |-> None, kf |-> None, out |-> None]

\* The next step of a call, from its arguments and its locals alone: the
\* steps are those of StateVectorsAtEpoch, NewtonPass, NewtonPanic,
\* StateVectorsReturn, ToElements, PropagateKepler, KeplerPass and
\* KeplerReturn.
call_step(c) ==
    CASE c.pc = "state_vectors_at_epoch" ->
             [c EXCEPT !.pc = "newton_approx",
                       !.nf = [kind |-> anomaly_kind(c.args.elements),
                               e |-> c.args.elements.eccentricity,
                               M |-> solver_mean_anomaly(c.args.elements,
                                                         c.args.mass, c.args.epoch),
                               x0 |-> solver_mean_anomaly(c.args.elements,
                                                          c.args.mass, c.args.epoch),
                               epsilon |-> c.args.tolerance,
                               x |-> solver_mean_anomaly(c.args.elements,
                                                         c.args.mass, c.args.epoch),
                               steps |-> 0]]
      [] c.pc = "newton_approx" ->
             IF c.nf.steps = MAX_STEPS
             THEN [c EXCEPT !.pc = "panicked"]
             ELSE IF newton_converged(newton_next(c.nf.kind, c.nf.e, c.nf.M, c.nf.x),
                                      c.nf.x, c.nf.epsilon)
             THEN [c EXCEPT !.pc = "newton_returned",
                            !.out = newton_next(c.nf.kind, c.nf.e, c.nf.M, c.nf.x)]
             ELSE [c EXCEPT !.nf.x = newton_next(c.nf.kind, c.nf.e, c.nf.M, c.nf.x),
                            !.nf.steps = @ + 1]
      [] c.pc = "newton_returned" ->
             [c EXCEPT !.pc = "returned",
                       !.out = state_vectors_of(c.args.elements, c.args.mass,
                                                true_anomaly_of(c.args.elements, c.out))]
      [] c.pc = "to_elements" ->
             [c EXCEPT !.pc = "returned",
                       !.out = to_elements(c.args.state, c.args.mass, c.args.epoch)]
      [] c.pc = "propagate_kepler" ->
             [c EXCEPT !.pc = "kepler_loop",
                       !.kf = [x |-> kepler_setup(c.args.state, c.args.dt,
                                                  c.args.mass).x0,
                               r |-> 0, c2 |-> 0, c3 |-> 0, psi |-> 0, passes |-> 0]]
      [] c.pc = "kepler_loop" ->
             LET p == kepler_pass(kepler_setup(c.args.state, c.args.dt, c.args.mass),
                                  c.args.dt, c.args.tolerance, c.kf.x)
                 broke == lt(abs(sub(p.new_x, c.kf.x)), c.args.tolerance)
             IN  [c EXCEPT !.pc = IF broke \/ c.kf.passes + 1 = KEPLER_ITERATIONS
                                  THEN "kepler_after_loop" ELSE "kepler_loop",
                           !.kf = [x |-> IF broke THEN c.kf.x ELSE p.new_x,
                                   r |-> p.r, c2 |-> p.c2, c3 |-> p.c3, psi |-> p.psi,
                                   passes |-> IF broke THEN c.kf.passes
                                              ELSE c.kf.passes + 1]]
      [] c.pc = "kepler_after_loop" ->
             LET ret == kepler_result(c.args.state,
                                      kepler_setup(c.args.state, c.args.dt, c.args.mass),
                                      c.args.dt, c.kf.x, c.kf.r, c.kf.c2, c.kf.c3,
                                      c.kf.psi)
             IN  IF vec_is_nan(ret.position) \/ vec_is_nan(ret.velocity)
                 THEN [c EXCEPT !.pc = "panicked"]
                 ELSE [c EXCEPT !.pc = "returned", !.out = ret]
      [] OTHER -> c

\* Locals kept in one place for all calls: every call reads the Newton
\* iterate of the first.
frame_of_first(th, t) ==
    IF th[t].nf # None /\ th[1].nf # None
    THEN [th[t] EXCEPT !.nf.x = th[1].nf.x]
    ELSE th[t]

\* The locals a call reads: its own.
frame(th, t) == th[t]

\* One step of the call t, interleaved with the steps of the others.  The
\* two println! of state_vectors_at_epoch and the eprintln! of
\* propagate_kepler go to the streams all the calls share.
Step(t) ==
    /\ threads[t].pc \notin {"returned", "panicked"}
    /\ threads' = [threads EXCEPT ![t] = call_step(frame(threads, t))]
    /\ stdout' = IF threads[t].pc = "state_vectors_at_epoch"
                 THEN stdout + 2 ELSE stdout
    /\ stderr' = IF threads[t].pc = "kepler_after_loop" /\ threads'[t].pc = "panicked"
                 THEN stderr + 1 ELSE stderr
    /\ UNCHANGED <<pc, leg, elements, state0, state, mass, epoch, tolerance, dt,
                   nf, kf, out, world>>

\* Sampled concurrent calls: the conversion of an elliptic orbit at two
\* epochs and of a hyperbolic one, and the propagation by two units of time
\* and the inverse conversion of a state off the reference plane.
MaxThreads == 2

Threads == 1..MaxThreads

ThreadCalls ==
    {[op |-> "state_vectors_at_epoch", elements |-> ee[1], state |-> None,
      mass |-> ONE, epoch |-> ee[2], tolerance |-> 10, dt |-> 0] :
        ee \in {<<KeplerianElements(300, ONE, 1500, 0, 0, 1500, 0), 0>>,
                <<KeplerianElements(300, ONE, 1500, 0, 0, 1500, 0), ONE>>,
                <<KeplerianElements(1500, ONE, 1500, 1500, 0, 1500, 0), ONE>>}}
        \cup {[op |-> ov[1], elements |-> None,
               state |-> StateVectors(vec3(ONE, 0, 0), vec3(0, 1200, ov[2])),
               mass |-> ONE, epoch |-> 0, tolerance |-> 10,
               dt |-> IF ov[1] = "propagate_kepler" THEN 2 * ONE ELSE 0] :
                 ov \in {<<"propagate_kepler", 500>>, <<"to_elements", 500>>}}

InitThreads ==
    /\ pc = "threads"
    /\ leg = 1
    /\ elements = None
    /\ state0 = None
    /\ state = None
    /\ mass = 0
    /\ epoch = 0
    /\ tolerance = 0
    /\ dt = 0
    /\ nf = None
    /\ kf = None
    /\ out = None
    /\ stdout = 0
    /\ stderr = 0
    /\ threads \in [Threads -> {call(a) : a \in ThreadCalls}]
    /\ world = None

NextThreads == \E t \in Threads : Step(t)

SpecThreads == InitThreads /\ [][NextThreads]_vars

\* ------------------------------------------------------------------------
\* orbit_viewer: the trajectory simulator
\* ------------------------------------------------------------------------

\* The bodies of a sampled system: a star, which has no PlanetParent, a
\* planet about it and a moon of the planet, its sphere of influence inside
\* the planet's.
Entity(index) == [index |-> index]

Star == Entity(1)
Inner == Entity(2)
Moon == Entity(3)

Bodies ==
    (Star :> [position |-> vec3(0, 0, 0), mass |-> 1000 * ONE, parent |-> None])
    @@ (Inner :> [position |-> vec3(10 * ONE, 0, 0), mass |-> 10 * ONE,
                  parent |-> Star])
    @@ (Moon :> [position |-> vec3(500, 0, 0), mass |-> 100, parent |-> Inner])

\* The orders in which a query may yield the bodies: bevy promises none.
Orders ==
    {o \in [1..Cardinality(DOMAIN Bodies) -> DOMAIN Bodies] :
        \A i, j \in DOMAIN o : i # j => o[i] # o[j]}

\* Sampled origins of the trajectory: at the moon, at the planet outside
\* the moon's sphere, and outside every sphere; and sampled velocities.
Origins == {vec3(10500, 0, 0), vec3(10 * ONE, 0, 0), vec3(0, 5 * ONE, 0)}

Velocities == {vec3(0, 0, 0), vec3(0, ONE, 0)}

\* The epochs the viewer is sampled at: 0.0, 1.0, ...
MaxEpoch == 2

Epochs == {ONE * k : k \in 0..MaxEpoch}

\* The number of RecalculateTrajectory events that may be pending.
MaxEvents == 1

\* ui::simulator_window: the sliders set the origin and the velocity of the
\* simulator, and the button, when clicked, sends RecalculateTrajectory.
SimulatorWindow ==
    /\ pc = "viewer"
    /\ \E o \in Origins, v \in Velocities, clicked \in BOOLEAN :
           /\ clicked => world.events < MaxEvents
           /\ world' = [world EXCEPT !.origin = o, !.velocity = v,
                                     !.events = IF clicked THEN @ + 1 ELSE @]
    /\ UNCHANGED <<pc, leg, elements, state0, state, mass, epoch, tolerance, dt,
                   nf, kf, out, stdout, stderr, threads>>

\* update::epoch and the epoch slider: the epoch moves.
ViewerEpoch ==
    /\ pc = "viewer"
    /\ \E e \in Epochs : world' = [world EXCEPT !.epoch = e]
    /\ UNCHANGED <<pc, leg, elements, state0, state, mass, epoch, tolerance, dt,
                   nf, kf, out, stdout, stderr, threads>>

\* A recalculate that pushes its segment without clearing the list first.
Recalculate_appends ==
    /\ pc = "viewer"
    /\ IF world.events = 0
       THEN UNCHANGED <<pc, world>>
       ELSE \E order \in Orders :
                LET starting_sv == StateVectors(world.origin, world.velocity)
                    parent == find_soi_at_position(starting_sv, world.planets,
                                                   order)
                IN  IF parent = Panic
                    THEN /\ pc' = "panicked"
                         /\ world' = [world EXCEPT !.events = 0]
                    ELSE /\ world' = [world EXCEPT
                                          !.events = 0,
                                          !.segments =
                                              Append(@,
                                                     TrajectorySegment(world.epoch,
                                                                       starting_sv,
                                                                       parent))]
                         /\ UNCHANGED pc
    /\ UNCHANGED <<leg, elements, state0, state, mass, epoch, tolerance, dt, nf,
                   kf, out, stdout, stderr, threads>>

\* trajectory::recalculate.  With no event to read it returns at once.
\* Otherwise it reads the events, finds the parent of the starting state,
\* the query yielding the bodies in some order, clears the segments and
\* pushes one.
Recalculate ==
    /\ pc = "viewer"
    /\ IF world.events = 0
       THEN UNCHANGED <<pc, world>>
       ELSE \E order \in Orders :
                LET starting_sv == StateVectors(world.origin, world.velocity)
                    parent == find_soi_at_position(starting_sv, world.planets,
                                                   order)
                IN  IF parent = Panic
                    THEN /\ pc' = "panicked"
                         /\ world' = [world EXCEPT !.events = 0]
                    ELSE /\ world' = [world EXCEPT
                                          !.events = 0,
                                          !.segments =
                                              <<TrajectorySegment(world.epoch,
                                                                  starting_sv,
                                                                  parent)>>]
                         /\ UNCHANGED pc
    /\ UNCHANGED <<leg, elements, state0, state, mass, epoch, tolerance, dt, nf,
                   kf, out, stdout, stderr, threads>>

\* The viewer as it starts: TrajectorySimulator::default(), no event sent,
\* the epoch 0.
InitTrajectory ==
    /\ pc = "viewer"
    /\ leg = 1
    /\ elements = None
    /\ state0 = None
    /\ state = None
    /\ mass = 0
    /\ epoch = 0
    /\ tolerance = 0
    /\ dt = 0
    /\ nf = None
    /\ kf = None
    /\ out = None
    /\ stdout = 0
    /\ stderr = 0
    /\ threads = None
    /\ world = [epoch |-> 0, planets |-> Bodies, origin |-> vec3(0, 0, 0),
                velocity |-> vec3(0, 0, 0), segments |-> <<>>, events |-> 0]

NextTrajectory ==
    \/ SimulatorWindow
    \/ ViewerEpoch
    \/ Recalculate

SpecTrajectory == InitTrajectory /\ [][NextTrajectory]_vars

\* ------------------------------------------------------------------------
\* orbit_viewer: the planets' update
\* ------------------------------------------------------------------------

\* The orders in which a query may yield the given entities.
OrdersOf(entities) ==
    {o \in [1..Cardinality(entities) -> entities] :
        \A i, j \in DOMAIN o : i # j => o[i] # o[j]}

Drifter == Entity(4)
Ghost == Entity(5)

AllComponents == {"PlanetMass", "PlanetParent", "Transform"}

\* Sampled systems of planets about a star of mass 1.0, built at the
\* tolerance 0.01: a planet on the unit orbit with a moon; the planet with
\* one spawned without PlanetParent and one without Transform; and the
\* moon with a parent that has no Transform.
PlanetSystems ==
    {(Inner :> PlanetBuilder(UnitOrbit, ONE, None, ONE, 10, AllComponents))
     @@ (Moon :> PlanetBuilder(KeplerianElements(300, 2 * ONE, 0, 0, 0, 1500, 0),
                               100, Inner, ONE, 10, AllComponents)),
     (Inner :> PlanetBuilder(UnitOrbit, ONE, None, ONE, 10, AllComponents))
     @@ (Drifter :> PlanetBuilder(UnitOrbit, ONE, None, ONE, 10,
                                  {"PlanetMass", "Transform"}))
     @@ (Ghost :> PlanetBuilder(UnitOrbit, ONE, None, ONE, 10,
                                {"PlanetMass", "PlanetParent"})),
     (Inner :> PlanetBuilder(UnitOrbit, ONE, None, ONE, 10,
                             {"PlanetMass", "PlanetParent"}))
     @@ (Moon :> PlanetBuilder(KeplerianElements(300, 2 * ONE, 0, 0, 0, 1500, 0),
                               100, Inner, ONE, 10, AllComponents))}

\* The number of frames the viewer is followed for.
MaxTicks == 3

\* update::planets, one run of the system: every planet the query yields,
\* in some order, to the end or to a panic.
Planets ==
    /\ pc = "viewer"
    /\ world.ticks < MaxTicks
    /\ \E order \in OrdersOf(DOMAIN world.planets) :
       \E w \in {planets_loop(world, order)} :
           /\ world' = [w EXCEPT !.ticks = @ + 1]
           /\ pc' = IF w.panicked THEN "panicked" ELSE pc
    /\ UNCHANGED <<leg, elements, state0, state, mass, epoch, tolerance, dt, nf,
                   kf, out, stdout, stderr, threads>>

\* The viewer with its planets spawned: the epoch 0, no frame run.
InitPlanets ==
    /\ pc = "viewer"
    /\ leg = 1
    /\ elements = None
    /\ state0 = None
    /\ state = None
    /\ mass = 0
    /\ epoch = 0
    /\ tolerance = 0
    /\ dt = 0
    /\ nf = None
    /\ kf = None
    /\ out = None
    /\ stdout = 0
    /\ stderr = 0
    /\ threads = None
    /\ world \in {[epoch |-> 0,
                   state |-> [star_mass |-> ONE, tolerance |-> 10,
                              distance_scaling |-> ONE],
                   planets |-> system, ticks |-> 0, panicked |-> FALSE] :
                     system \in PlanetSystems}

NextPlanets ==
    \/ ViewerEpoch
    \/ Planets

SpecPlanets == InitPlanets /\ [][NextPlanets]_vars

\* ------------------------------------------------------------------------
\* The axis adapters and the viewer's state-vector sliders
\* ------------------------------------------------------------------------

\* The largest sampled State.distance_scaling.
MaxScaling == 10

Scalings == {ONE, MaxScaling * ONE}

\* Sampled vectors handed to the adapters: those of Vectors, and the same
\* ten times as long.
AdapterVectors == {vscale(p, k) : p \in Vectors, k \in Scalings}

\* A vector the user drags a position slider to.
Drags == {vec3(0, ONE, 0)}

\* A call of zup2yup, on the sampled vector or on what yup2zup returned.
Zup2yup ==
    /\ \/ pc = "vector_ready" /\ out' = zup2yup(state.position) /\ leg' = 1
       \/ pc = "yup2zup_returned" /\ leg = 1 /\ out' = zup2yup(out) /\ leg' = 2
    /\ pc' = "zup2yup_returned"
    /\ UNCHANGED <<elements, state0, state, mass, epoch, tolerance, dt, nf, kf,
                   stdout, stderr, threads, world>>

\* A call of yup2zup, on the sampled vector or on what zup2yup returned.
Yup2zup ==
    /\ \/ pc = "vector_ready" /\ out' = yup2zup(state.position) /\ leg' = 1
       \/ pc = "zup2yup_returned" /\ leg = 1 /\ out' = yup2zup(out) /\ leg' = 2
    /\ pc' = "yup2zup_returned"
    /\ UNCHANGED <<elements, state0, state, mass, epoch, tolerance, dt, nf, kf,
                   stdout, stderr, threads, world>>

\* ui::render, the state-vector sliders of the selected planet, one frame:
\* the position goes to the presentation frame, scaled, the slider may set
\* it (out records to what), and it comes back; the velocity likewise.
RenderSliders ==
    /\ pc = "vector_ready"
    /\ \E drag \in {None} \cup Drags :
           /\ state' =
                  StateVectors(
                      yup2zup(vdiv(IF drag = None
                                   THEN zup2yup(vscale(state.position,
                                                       world.distance_scaling))
                                   ELSE drag,
                                   world.distance_scaling)),
                      yup2zup(vdiv(zup2yup(vscale(vscale(state.velocity,
                                                         world.distance_scaling),
                                                  world.velocity_scaling)),
                                   mul(world.distance_scaling,
                                       world.velocity_scaling))))
           /\ out' = drag
    /\ pc' = "rendered"
    /\ UNCHANGED <<leg, elements, state0, mass, epoch, tolerance, dt, nf, kf,
                   stdout, stderr, threads, world>>

InitAdapters ==
    /\ pc = "vector_ready"
    /\ leg = 1
    /\ elements = None
    /\ state \in {StateVectors(p, vec3(0, ONE, 0)) : p \in AdapterVectors}
    /\ state0 = state
    /\ mass = 0
    /\ epoch = 0
    /\ tolerance = 0
    /\ dt = 0
    /\ nf = None
    /\ kf = None
    /\ out = None
    /\ stdout = 0
    /\ stderr = 0
    /\ threads = None
    /\ world \in {[distance_scaling |-> k, velocity_scaling |-> ONE] :
                     k \in Scalings}

NextAdapters ==
    \/ Zup2yup
    \/ Yup2zup
    \/ RenderSliders

SpecAdapters == InitAdapters /\ [][NextAdapters]_vars

\* ------------------------------------------------------------------------
\* Properties
\* ------------------------------------------------------------------------

\* Two numbers are both finite and no further apart than tol.
Close(a, b, tol) == is_finite(a) /\ is_finite(b) /\ a - b <= tol /\ b - a <= tol

VecClose(u, v, tol) ==
    Close(u.x, v.x, tol) /\ Close(u.y, v.y, tol) /\ Close(u.z, v.z, tol)

VecFinite(v) == is_finite(v.x) /\ is_finite(v.y) /\ is_finite(v.z)

\* C1: round trip.  For elements with eccentricity in [0, 0.99], a positive
\* semi-major axis and angles in [0, 2 pi), state_vectors_at_epoch followed by
\* to_elements at the same epoch reproduces the eccentricity, the semi-major
\* axis, the inclination and the mean anomaly (within 0.05), and also the
\* node and the periapsis unless the inclination or the eccentricity is 0.
C1_RoundTrip ==
    (/\ pc = "elements_returned"
     /\ elements # None
     /\ le(elements.eccentricity, 990)
     /\ gt(elements.semi_major_axis, 0))
        => /\ Close(out.eccentricity, elements.eccentricity, ONE \div 20)
           /\ Close(out.semi_major_axis, elements.semi_major_axis, ONE \div 20)
           /\ Close(out.inclination, elements.inclination, ONE \div 20)
           /\ Close(out.mean_anomaly_at_epoch,
                    mean_anomaly(elements, mass, epoch), ONE \div 20)
           /\ (gt(elements.inclination, 0) /\ gt(elements.eccentricity, 0)
                  => /\ Close(out.right_ascension_of_the_ascending_node,
                              elements.right_ascension_of_the_ascending_node,
                              ONE \div 20)
                     /\ Close(out.argument_of_periapsis,
                              elements.argument_of_periapsis, ONE \div 20))

\* C2: time reversal.  Propagating a finite state by dt and the result by
\* -dt never fails and gives back the state (within 0.1).
C2_TimeReversal ==
    /\ pc # "panicked"
    /\ (pc = "state_returned" /\ leg = 2
           => /\ VecClose(out.position, state0.position, ONE \div 10)
              /\ VecClose(out.velocity, state0.velocity, ONE \div 10))

\* The value newton_approx returns, by its contract: from x, the first
\* x_next with |x_next - x| < epsilon; NAN stands for no value once
\* MAX_STEPS passes have been made.
RECURSIVE FirstConverged(_, _, _, _, _, _)
FirstConverged(kind, e, M, epsilon, x, n) ==
    IF n = MAX_STEPS THEN NAN
    ELSE IF newton_converged(newton_next(kind, e, M, x), x, epsilon)
    THEN newton_next(kind, e, M, x)
    ELSE FirstConverged(kind, e, M, epsilon, newton_next(kind, e, M, x), n + 1)

\* C3: newton_approx never returns an unconverged value.  It makes at most
\* MAX_STEPS passes; a call that has made them all has panicked or is about
\* to, and has returned nothing; what it returns is a converged step; and
\* the conversion that called it produces state vectors only from a returned
\* value, never after the panic.
C3_CapIsFatal ==
    /\ nf # None => nf.steps <= MAX_STEPS
    /\ (nf # None /\ nf.steps = MAX_STEPS) => pc \in {"newton_approx", "panicked"}
    /\ pc = "panicked" => out = None /\ state = None
    /\ pc = "newton_returned" => newton_converged(out, nf.x, nf.epsilon)
    /\ (nf # None /\ state # None)
           => newton_converged(newton_next(nf.kind, nf.e, nf.M, nf.x), nf.x,
                               nf.epsilon)

\* A solve that made all its passes and panicked.
C3_Witness ==
    pc = "panicked" /\ nf # None /\ nf.steps = MAX_STEPS /\ out = None

\* C4: propagate_kepler does not return a state when its loop has made all
\* KEPLER_ITERATIONS passes without meeting the tolerance.
C4_ExhaustionSignalled ==
    pc = "state_returned" => kf.passes < KEPLER_ITERATIONS

\* C5: propagate_kepler never returns a state with a component that is not
\* finite.
C5_NoNonFiniteReturn ==
    pc = "state_returned" => VecFinite(out.position) /\ VecFinite(out.velocity)

\* C6: newton_approx is called with x0 = M, the mean anomaly, and returns
\* x_next of the first pass whose step is shorter than epsilon: not the x it
\* stepped from, and no later iterate.
C6_FirstConvergedIterate ==
    /\ (nf # None /\ nf.steps = 0 /\ pc = "newton_approx")
           => /\ nf.x = solver_mean_anomaly(elements, mass, epoch)
              /\ nf.M = nf.x
    /\ pc = "newton_returned"
           => out = FirstConverged(anomaly_kind(elements), elements.eccentricity,
                                   solver_mean_anomaly(elements, mass, epoch),
                                   tolerance,
                                   solver_mean_anomaly(elements, mass, epoch), 0)

\* A solve that returned after more than two passes, with a last step that
\* moved x.
C6_Witness ==
    pc = "newton_returned" /\ nf.steps >= 2 /\ out # nf.x

C7_WitnessInverse ==
    pc = "elements_returned" /\ out.eccentricity = ONE

\* C8: a circular orbit is recovered.  to_elements on a state whose
\* eccentricity vector has length 0 returns argument_of_periapsis = 0 and
\* every other element finite.
C8_CircularRecovered ==
    (/\ pc = "elements_returned"
     /\ feq(length(eccentricity_vector(state,
                       standard_gravitational_parameter(mass))), 0))
        => /\ out.argument_of_periapsis = 0
           /\ is_finite(out.eccentricity)
           /\ is_finite(out.semi_major_axis)
           /\ is_finite(out.inclination)
           /\ is_finite(out.right_ascension_of_the_ascending_node)
           /\ is_finite(out.mean_anomaly_at_epoch)

\* C9: an equatorial orbit is recovered with a node of exactly 0.  Whenever
\* Z x h is shorter than EPSILON, to_elements returns
\* right_ascension_of_the_ascending_node = 0.
C9_EquatorialNode ==
    (/\ pc = "elements_returned"
     /\ lt(length(cross(Vec3_Z, cross(state.position, state.velocity))), EPSILON))
        => out.right_ascension_of_the_ascending_node = 0

\* A retrograde orbit in the reference plane, converted.
C9_Witness ==
    /\ pc = "elements_returned"
    /\ lt(length(cross(Vec3_Z, cross(state.position, state.velocity))), EPSILON)
    /\ lt(cross(state.position, state.velocity).z, 0)
    /\ out.right_ascension_of_the_ascending_node = 0

\* An argument just outside [-1, 1]: finite, beyond 1 in magnitude by no
\* more than 0.005.
Marginal(arg) ==
    is_finite(arg) /\ gt(abs(arg), ONE) /\ le(abs(arg), ONE + ONE \div 200)

\* C10: every acos of the inverse conversion is taken of a clamped
\* argument: when the argument for the inclination, the node, the periapsis
\* or the true anomaly is marginally outside [-1, 1], the angle is a number.
C10_AcosClamped ==
    pc = "elements_returned"
        => /\ Marginal(acos_arguments(state, mass)[1]) => ~is_nan(out.inclination)
           /\ Marginal(acos_arguments(state, mass)[2])
                  => ~is_nan(out.right_ascension_of_the_ascending_node)
           /\ (Marginal(acos_arguments(state, mass)[3]) /\ ~feq(out.eccentricity, 0))
                  => ~is_nan(out.argument_of_periapsis)
           /\ Marginal(acos_arguments(state, mass)[4])
                  => ~is_nan(true_anomaly_angle(state,
                                 eccentricity_vector(state,
                                     standard_gravitational_parameter(mass)),
                                 out.eccentricity))

\* C11: every KeplerianElements that to_elements returns has eccentricity
\* >= 0, inclination in [0, pi], and right ascension of the ascending node
\* and argument of periapsis in [0, 2 pi), 2 pi itself excluded.
C11_ElementRanges ==
    pc = "elements_returned"
        => /\ ge(out.eccentricity, 0)
           /\ ge(out.inclination, 0)
           /\ le(out.inclination, PI)
           /\ ge(out.right_ascension_of_the_ascending_node, 0)
           /\ lt(out.right_ascension_of_the_ascending_node, TWO_PI)
           /\ ge(out.argument_of_periapsis, 0)
           /\ lt(out.argument_of_periapsis, TWO_PI)

\* The rotation that position_at_true_anomaly and velocity_at_true_anomaly
\* apply: Rz(raan) Rx(i) Rz(argp).
Rotation(self) ==
    mul_mat3(mul_mat3(Mat3_from_rotation_z(self.right_ascension_of_the_ascending_node),
                      Mat3_from_rotation_x(self.inclination)),
             Mat3_from_rotation_z(self.argument_of_periapsis))

\* C12: the wrappers are fixed evaluations: periapsis is
\* position_at_true_anomaly(0), apoapsis position_at_true_anomaly(pi),
\* ascending_node position_at_true_anomaly(-argp), descending_node
\* position_at_true_anomaly(pi - argp), and normal is the Z axis taken
\* through the rotation Rz(raan) Rx(i) Rz(argp) of the positions.
C12_Wrappers ==
    pc = "wrapper_returned"
        => /\ out.name = "periapsis"
                => out.value = position_at_true_anomaly(elements, mass, 0)
           /\ out.name = "apoapsis"
                => out.value = position_at_true_anomaly(elements, mass, PI)
           /\ out.name = "ascending_node"
                => out.value = position_at_true_anomaly(
                                   elements, mass, neg(elements.argument_of_periapsis))
           /\ out.name = "descending_node"
                => out.value = position_at_true_anomaly(
                                   elements, mass,
                                   sub(PI, elements.argument_of_periapsis))
           /\ out.name = "normal"
                => out.value = mul_vec3(Rotation(elements), Vec3_Z)
           /\ perifocal_to_equatorial(elements, Vec3_X)
                  = mul_vec3(Rotation(elements), Vec3_X)

C12_Witness ==
    /\ pc = "wrapper_returned"
    /\ out.name = "descending_node"
    /\ elements.argument_of_periapsis # 0
    /\ elements.inclination # 0
    /\ VecFinite(out.value)
    /\ out.value # position_at_true_anomaly(elements, mass, PI)

\* C13: on the circular orbit of radius 1 in the reference plane (e = 0,
\* a = 1, i = raan = argp = M0 = 0), about any of the positive masses,
\* position_at_true_anomaly(v) is (cos v, sin v, 0) to within two units of
\* the format: (1, 0, 0) at v = 0 and (0, 1, 0) at v = pi/2.
C13_UnitCircle ==
    (pc = "position_returned" /\ elements = UnitOrbit /\ gt(mass, 0))
        => /\ VecClose(out.value, vec3(cos(out.v), sin(out.v), 0), 2)
           /\ out.v = 0 => VecClose(out.value, vec3(ONE, 0, 0), 2)
           /\ out.v = div(PI, 2 * ONE) => VecClose(out.value, vec3(0, ONE, 0), 2)

C13_Witness ==
    /\ pc = "position_returned"
    /\ elements = UnitOrbit
    /\ mass = 2 * ONE
    /\ out.v = div(PI, 2 * ONE)
    /\ VecClose(out.value, vec3(0, ONE, 0), 2)

\* C14: round trip through lib.rs.  state_vectors_to_orbit(sv, mass, t)
\* followed by state_vectors_at_epoch(mass, t, tolerance) does not fail and
\* gives back the position and the velocity of sv (every component within
\* 0.1, which the claimed 0.0001 implies).
C14_LibRoundTrip ==
    /\ state0 # None => pc # "panicked"
    /\ pc = "lib_state_returned" /\ state0 # None
           => /\ VecClose(out.position, state0.position, ONE \div 10)
              /\ VecClose(out.velocity, state0.velocity, ONE \div 10)

\* C15: on the circular orbit of radius 1 in the reference plane, lib.rs
\* position_at_true_anomaly(MASS, v) is (sin v, cos v, 0), to within two
\* units of the format: (0, 1, 0) at v = 0, (1, 0, 0) at pi/2, (0, -1, 0) at
\* pi and (-1, 0, 0) at 3 pi/2.
C15_LibUnitCircle ==
    (pc = "lib_position_returned" /\ elements = UnitOrbit)
        => VecClose(out.value, vec3(sin(out.v), cos(out.v), 0), 2)

\* C16: no core operation has an effect besides its return value: no step
\* of a call writes to the standard output or the standard error, or changes
\* the elements, the mass, the epoch or the tolerance it was called with.
C16_NoEffect ==
    [][/\ stdout' = stdout
       /\ stderr' = stderr
       /\ elements' = elements
       /\ mass' = mass
       /\ epoch' = epoch
       /\ tolerance' = tolerance]_vars

\* A call run alone, from its start to its end.
RECURSIVE Alone(_)
Alone(c) == IF c.pc \in {"returned", "panicked"} THEN c ELSE Alone(call_step(c))

\* C17: the core operations share no mutable state.  However the steps of
\* concurrent calls to state_vectors_at_epoch, to_elements and
\* propagate_kepler interleave, a call that has ended has ended as it does
\* when it runs alone on the same arguments, with the same result.
C17_Independent ==
    threads # None
        => \A t \in Threads :
               threads[t].pc \in {"returned", "panicked"}
                   => /\ threads[t].pc = Alone(call(threads[t].args)).pc
                      /\ threads[t].out = Alone(call(threads[t].args)).out

C17_Witness ==
    /\ threads # None
    /\ threads[1].pc = "returned"
    /\ threads[1].op = "state_vectors_at_epoch"
    /\ threads[2].op = "state_vectors_at_epoch"
    /\ threads[2].args.elements = threads[1].args.elements
    /\ threads[2].pc = "newton_approx"
    /\ threads[2].nf.steps > 0

\* C18: for a fixed distance r > 0 and positive masses, soi(r, m1, m2) is
\* strictly increasing in m1 and strictly decreasing in m2: a larger m1
\* gives a larger radius and a larger m2 a smaller one.
C18_SoiMonotone ==
    pc = "soi_returned"
        => \A m \in Masses, j \in {0, 1} :
               /\ gt(m + j, out.m1) => gt(soi(out.r, m + j, out.m2), out.value)
               /\ gt(m + j, out.m2) => lt(soi(out.r, out.m1, m + j), out.value)

\* C19: when propagate_kepler leaves its loop, by convergence or after all
\* its passes, the psi, c2, c3 and r that enter f, g, df and dg are those
\* of the x that enters them: computing them again from that x gives the
\* same values.
C19_SameIterate ==
    pc = "kepler_after_loop"
        => \A p \in {kepler_pass(kepler_setup(state, dt, mass), dt, tolerance, kf.x)} :
               /\ kf.psi = p.psi
               /\ kf.c2 = p.c2
               /\ kf.c3 = p.c3
               /\ kf.r = p.r

\* The branches of find_c2c3 that psi and the tolerance select.
Branches(psi, eps) ==
    {b \in {"circular", "hyperbolic", "constants"} :
        \/ b = "circular" /\ gt(psi, eps)
        \/ b = "hyperbolic" /\ lt(psi, neg(eps))
        \/ b = "constants" /\ le(abs(psi), eps)}

\* C20: with a positive tolerance find_c2c3(psi, tolerance) takes exactly
\* one of three branches: the circular formulas for psi > tolerance, the
\* hyperbolic ones for psi < -tolerance, the constants (1/2, 1/6) for
\* |psi| <= tolerance.  It never divides by psi = 0 and never takes the
\* square root of a negative number, so for a finite psi c2 is a number.
C20_Branches ==
    (/\ pc \in {"kepler_loop", "kepler_after_loop"}
     /\ pc = "kepler_loop" => kf.passes > 0
     /\ gt(tolerance, 0)
     /\ is_finite(kf.psi))
        => /\ Cardinality(Branches(kf.psi, tolerance)) = 1
           /\ <<kf.c2, kf.c3>> = find_c2c3(kf.psi, tolerance)
           /\ "circular" \in Branches(kf.psi, tolerance)
                  => kf.psi # 0 /\ ge(kf.psi, 0) /\ ge(powi3(kf.psi), 0)
           /\ "hyperbolic" \in Branches(kf.psi, tolerance)
                  => kf.psi # 0 /\ ge(neg(kf.psi), 0) /\ ge(powi3(neg(kf.psi)), 0)
           /\ "constants" \in Branches(kf.psi, tolerance)
                  => kf.c2 = ONE \div 2 /\ kf.c3 = div(ONE, 6 * ONE)
           /\ ~is_nan(kf.c2)

C20_Witness ==
    /\ pc = "kepler_after_loop"
    /\ gt(tolerance, 0)
    /\ kf.psi = 0
    /\ kf.c2 = ONE \div 2

\* C21: propagating by zero elapsed time is the identity.  A call of
\* propagate_kepler with dt = 0 on a finite state with r0 > 0, at a positive
\* tolerance, ends by returning, and returns the position and the velocity
\* it was called on.
C21_ZeroIsIdentity ==
    (/\ pc \in {"state_returned", "panicked"}
     /\ state # None
     /\ dt = 0
     /\ VecFinite(state.position) /\ VecFinite(state.velocity)
     /\ gt(length(state.position), 0)
     /\ gt(tolerance, 0))
        => /\ pc = "state_returned"
           /\ out = state

\* The true anomaly of the spec's formula and of the code's, from the
\* eccentric anomaly E at the eccentricity e.
NuProduct(E, e) ==
    mul(2 * ONE, atan(mul(tan(div(E, 2 * ONE)),
                          sqrt(div(sub(ONE, e), add(ONE, e))))))

NuQuotient(E, e) ==
    mul(2 * ONE, atan(div(tan(div(E, 2 * ONE)),
                          sqrt(div(sub(ONE, e), add(ONE, e))))))

\* C22 as stated: for e < 1 the true anomaly computed from the eccentric
\* anomaly E is 2 atan(tan(E/2) sqrt((1 - e)/(1 + e))): the state returned by
\* state_vectors_at_epoch is the one at that true anomaly.
C22_TrueAnomalyProduct ==
    [][(/\ pc = "newton_returned"
        /\ pc' = "state_ready"
        /\ lt(elements.eccentricity, ONE))
           => out' = state_vectors_of(elements, mass,
                                      NuProduct(out, elements.eccentricity))]_vars

\* C22, amended: for e < 1 the true anomaly computed from the eccentric
\* anomaly E is 2 atan(tan(E/2) / sqrt((1 - e)/(1 + e))), in
\* true_anomaly_at_epoch and in astro::elliptic::true_anomaly alike: the
\* state returned by state_vectors_at_epoch is the one at that true anomaly.
C22_TrueAnomalyQuotient ==
    [][(/\ pc = "newton_returned"
        /\ pc' = "state_ready"
        /\ lt(elements.eccentricity, ONE))
           => /\ out' = state_vectors_of(elements, mass,
                                         NuQuotient(out, elements.eccentricity))
              /\ elliptic_true_anomaly(out, elements.eccentricity)
                     = NuQuotient(out, elements.eccentricity)]_vars

\* A forward conversion of an eccentric elliptic orbit has returned a state
\* away from the apsides, where the two formulas part.
C22_Witness ==
    /\ pc = "state_ready"
    /\ elements # None
    /\ gt(elements.eccentricity, 0) /\ lt(elements.eccentricity, ONE)
    /\ out = state
    /\ out # state_vectors_of(elements, mass, 0)
    /\ out # state_vectors_of(elements, mass, PI)

\* A bound state: r v^2 < 2 mu.
Bound(self, central_mass) ==
    lt(mul(length(self.position), powi2(length(self.velocity))),
       mul(2 * ONE, standard_gravitational_parameter(central_mass)))

\* C23: for every bound state the semi-major axis is positive wherever it is
\* derived from a state vector: in the elements to_elements returns, in the
\* value of StateVectors::semi_major_axis and in the a of
\* StateVectors::period.
C23_AxisPositive ==
    (state # None /\ Bound(state, mass))
        => /\ pc = "elements_returned" => gt(out.semi_major_axis, 0)
           /\ pc = "axis_returned" => gt(out, 0)
           /\ pc = "period_returned" => gt(out.a, 0)

\* The angle of the eccentricity vector ev of length e from the X axis, its
\* quadrant taken from the sign of ev.y.
AngleFromX(ev, e) ==
    IF lt(ev.y, 0) THEN sub(TWO_PI, acos(div(ev.x, e))) ELSE acos(div(ev.x, e))

\* C24: in to_elements the equatorial special cases are taken together.
\* Whenever the node vector is replaced by the X axis or the node is forced
\* to 0, the argument of periapsis of an eccentric orbit is the angle of the
\* eccentricity vector from the X axis, with the quadrant decided by the sign
\* of its y component.
C24_EquatorialPeriapsis ==
    pc = "elements_returned"
        => LET hv == cross(state.position, state.velocity)
               ev == eccentricity_vector(state,
                                         standard_gravitational_parameter(mass))
               replaced == lt(length(cross(Vec3_Z, hv)), EPSILON)
               forced == lt(abs(acos(div(hv.z, length(hv)))), EPSILON)
           IN  ((replaced \/ forced)
                   /\ is_finite(length(ev)) /\ gt(length(ev), 0))
                   => out.argument_of_periapsis = AngleFromX(ev, length(ev))

\* C25: the inverse conversion never iterates.  A call made on state vectors
\* that are ready neither enters newton_approx nor panics, and leaves the
\* solver's frame alone; the mean anomaly to_elements returns is the closed
\* form of the true anomaly, the elliptical one for e < 1 and the hyperbolic
\* one for e >= 1.
C25_NoIteration ==
    [][pc = "state_ready"
           => /\ pc' \notin {"newton_approx", "panicked"}
              /\ nf' = nf
              /\ pc' = "elements_returned"
                     => LET ev == eccentricity_vector(
                                      state, standard_gravitational_parameter(mass))
                            e == length(ev)
                            v == true_anomaly_angle(state, ev, e)
                        IN  out'.mean_anomaly_at_epoch
                                = IF lt(e, ONE)
                                  THEN calculate_elliptical_mean_anomaly(e, v)
                                  ELSE calculate_hyperbolic_mean_anomaly(e, v)]_vars

\* to_elements has returned the finite mean anomaly of a hyperbolic state
\* without the solver ever having been entered.
C25_Witness ==
    /\ pc = "elements_returned"
    /\ nf = None
    /\ ge(out.eccentricity, ONE)
    /\ is_finite(out.mean_anomaly_at_epoch)
    /\ out.mean_anomaly_at_epoch # 0

\* C26: every core loop terminates within its cap, whatever the inputs.
\* newton_approx makes at most MAX_STEPS steps: each pass that goes round
\* counts one step, and at MAX_STEPS the call panics.  propagate_kepler makes
\* at most KEPLER_ITERATIONS passes: each pass that goes round counts one,
\* no pass starts at the cap, and past the loop the call returns or panics.
C26_LoopsCapped ==
    [][/\ nf' # None => nf'.steps <= MAX_STEPS
       /\ (pc = "newton_approx" /\ pc' = "newton_approx")
              => nf'.steps = nf.steps + 1
       /\ (pc = "newton_approx" /\ nf.steps = MAX_STEPS) => pc' = "panicked"
       /\ pc = "newton_approx" => pc' \in {"newton_approx", "newton_returned",
                                           "panicked"}
       /\ kf' # None => kf'.passes <= KEPLER_ITERATIONS
       /\ pc' = "kepler_loop" => kf'.passes < KEPLER_ITERATIONS
       /\ (pc = "kepler_loop" /\ pc' = "kepler_loop")
              => kf'.passes = kf.passes + 1
       /\ pc = "kepler_loop" => pc' \in {"kepler_loop", "kepler_after_loop"}
       /\ pc = "kepler_after_loop" => pc' \in {"state_returned", "panicked"}]_vars

\* A call of newton_approx at a tolerance that is not positive has made all
\* its steps and panicked.
C26_Witness ==
    /\ pc = "panicked"
    /\ nf # None
    /\ nf.steps = MAX_STEPS
    /\ le(nf.epsilon, 0)

\* C27: trajectory recalculation is a single-segment stub.  The segments
\* change only in a call of recalculate that has an event to read; such a
\* call, when it returns, leaves exactly one segment, entered at the current
\* epoch with the state vectors (origin, velocity) and with the parent
\* find_soi_at_position gives for that state; and the list never holds more
\* than one segment.
C27_SingleSegment ==
    [][/\ Len(world'.segments) <= 1
       /\ world.events = 0 => world'.segments = world.segments
       /\ world'.segments # world.segments
              => world.events > 0 /\ world'.events = 0
       /\ (world.events > 0 /\ world'.events = 0 /\ pc' = "viewer")
              => \E order \in Orders :
                     world'.segments
                         = <<TrajectorySegment(
                                 world.epoch,
                                 StateVectors(world.origin, world.velocity),
                                 find_soi_at_position(
                                     StateVectors(world.origin, world.velocity),
                                     world.planets, order))>>]_vars

\* A call of recalculate has left one segment, entered at the epoch 1.0
\* with the simulator's origin, in the sphere of the moon.
C27_Witness ==
    /\ pc = "viewer"
    /\ world.events = 0
    /\ Len(world.segments) = 1
    /\ world.segments[1].entry = ONE
    /\ world.segments[1].parent = Moon
    /\ world.segments[1].entry_sv.position = world.origin

\* The distance of a body's sphere of influence, centred at its position
\* offset by its parent's, from a position; and whether the sphere holds it.
CentreDistance(planets, entity, position) ==
    length(vsub(vadd(planets[entity].position,
                     planets[planets[entity].parent].position),
                position))

Holds(planets, entity, position) ==
    /\ planets[entity].parent # None
    /\ lt(CentreDistance(planets, entity, position),
          soi(length(planets[entity].position), planets[entity].mass,
              planets[planets[entity].parent].mass))

\* C28: find_soi_at_position returns, among the bodies whose sphere of
\* influence holds the position, the one whose centre is nearest, and the
\* parentless central body only when no sphere holds it, whatever the order
\* of the query: so is the parent of the segment recalculate has pushed.
C28_NearestSphere ==
    (pc = "viewer" /\ Len(world.segments) = 1)
        => LET position == world.segments[1].entry_sv.position
               parent == world.segments[1].parent
               holding == {b \in DOMAIN world.planets :
                              Holds(world.planets, b, position)}
           IN  IF holding = {}
               THEN world.planets[parent].parent = None
               ELSE /\ parent \in holding
                    /\ \A b \in holding :
                           le(CentreDistance(world.planets, parent, position),
                              CentreDistance(world.planets, b, position))

\* The adapters as exact exchanges of the components.
zup2yup_exchange(p) == vec3(p.x, p.z, neg(p.y))
yup2zup_exchange(p) == vec3(p.x, neg(p.z), p.y)

\* C30: zup2yup maps (x, y, z) to (x, z, -y) and yup2zup maps it to
\* (x, -z, y); either adapter applied to what the other returned gives the
\* vector back; and a frame of the state-vector sliders in which nothing is
\* dragged leaves the state vectors as they were.
C30_MutualInverses ==
    /\ pc = "zup2yup_returned" /\ leg = 1
           => out = zup2yup_exchange(state.position)
    /\ pc = "yup2zup_returned" /\ leg = 1
           => out = yup2zup_exchange(state.position)
    /\ pc \in {"zup2yup_returned", "yup2zup_returned"} /\ leg = 2
           => out = state.position
    /\ pc = "rendered" /\ out = None => state = state0

\* The sum of the dt of a planet's propagations.
RECURSIVE SumOf(_)
SumOf(applied) ==
    IF applied = <<>> THEN 0 ELSE add(Head(applied), SumOf(Tail(applied)))

\* The planet before was propagated in a run of update::planets on w: by
\* the epoch less its last_update_epoch, which became the epoch.
Propagated(w, before, after) ==
    /\ after.applied = Append(before.applied,
                              sub(w.epoch, before.last_update_epoch))
    /\ after.last_update_epoch = w.epoch
    /\ after.state_vectors =
           propagate_kepler(before.state_vectors,
                            sub(w.epoch, before.last_update_epoch),
                            planets_central_mass(w, before), w.state.tolerance)

\* The planet was passed over.
PassedOver(before, after) ==
    /\ after.state_vectors = before.state_vectors
    /\ after.last_update_epoch = before.last_update_epoch
    /\ after.applied = before.applied

=============================================================================
